---- MODULE Spec2Model ----
(***************************************************************************)
(* Model of the action-interception layer of the stagehand demo server:    *)
(* PageOverrider (page facade, lazily memoized CDP session, goto and click *)
(* served by protocol commands) and LocatorOverrider (locator wrapper).    *)
(*                                                                         *)
(* One PageOverrider instance is modelled.  Callers are numbered tasks;    *)
(* a task performs one chain  page.<member>(...)  or                       *)
(* page.locator(...).<member>(...)  at a time and then starts over.  Every *)
(* await of the source ends a step, so that tasks interleave where the     *)
(* event loop lets them.                                                   *)
(* Coordinates are kept in half pixels (the value 2*v stands for v), so    *)
(* that left + width/2 is exact for odd widths.                            *)
(***************************************************************************)
EXTENDS Integers, Sequences, FiniteSets, TLC

\* ---------------------------------------------------------------- bounds
MaxCalls == 2      \* caller tasks
MaxPages == 2      \* page handles the SDK goes through
MaxRequests == 2   \* the request counter saturates here ("this many or more")

Calls == 1..MaxCalls

\* ---------------------------------------------------------------- inputs
Undefined == "undefined"

PageProps == {"goto", "click", "locator", "act", "extract", "observe"}
LocatorProps == {"click", "fill", "textContent"}

Urls == {"https://www.google.com"}
Selectors == {"#search", ".item"}
LocatorSelectors == {"textarea[title='Search']"}

NoOptions ==
  [present |-> FALSE, referer |-> Undefined, timeout |-> Undefined, waitUntil |-> Undefined]
GotoOptionsSet ==
  { NoOptions,
    [present |-> TRUE, referer |-> "https://r.example", timeout |-> Undefined, waitUntil |-> Undefined],
    [present |-> TRUE, referer |-> Undefined, timeout |-> "5000", waitUntil |-> "load"] }

\* arguments a caller may pass to a native page member
NativeArgs == {"search for cats"}

\* arguments a caller may pass to a member of a locator
LocatorArgs == {Undefined, "{button:'right'}"}

\* bounding rectangles, in pixels
Rect(l, t, w, h) == [left |-> l, top |-> t, width |-> w, height |-> h]
RSearch == Rect(100, 50, 40, 20)
RMoved  == Rect(10, 20, 41, 7)
RItemA  == Rect(0, 0, 30, 10)
RItemB  == Rect(0, 40, 30, 10)
RButton == Rect(200, 300, 80, 30)

\* the steps of example(page)
ExampleUrl == "https://www.google.com"
ExampleLocator == "textarea[title='Search']"
ExampleFill == "Hello"
ExampleClick == "input[aria-label=\"Google Search\"]"
\* variant: the script clicks the search button first
ExampleScript_ClickFirst ==
  << [prop |-> "click", lprop |-> "", largs |-> Undefined],
     [prop |-> "goto", lprop |-> "", largs |-> Undefined],
     [prop |-> "locator", lprop |-> "click", largs |-> Undefined],
     [prop |-> "locator", lprop |-> "fill", largs |-> ExampleFill] >>
ExampleScript ==
  << [prop |-> "goto", lprop |-> "", largs |-> Undefined],
     [prop |-> "locator", lprop |-> "click", largs |-> Undefined],
     [prop |-> "locator", lprop |-> "fill", largs |-> ExampleFill],
     [prop |-> "click", lprop |-> "", largs |-> Undefined] >>
AllSelectors == Selectors \cup {ExampleClick}

\* documents: for every selector the matching elements in document order
DocFull  == [s \in AllSelectors |->
               IF s = "#search" THEN <<RSearch>>
               ELSE IF s = ".item" THEN <<RItemA, RItemB>>
               ELSE IF s = ExampleClick THEN <<RButton>> ELSE <<>>]
DocMoved == [s \in AllSelectors |->
               IF s = "#search" THEN <<RMoved>>
               ELSE IF s = ".item" THEN <<RItemB, RItemA>>
               ELSE IF s = ExampleClick THEN <<RButton>> ELSE <<>>]
DocEmpty == [s \in AllSelectors |-> <<>>]

\* layouts in which several elements match ".item": apart, nested (the inner
\* element covers the center of the outer one), and with an empty first box
ROuter == Rect(0, 0, 100, 100)
RInner == Rect(40, 40, 20, 20)
RPoint == Rect(5, 5, 0, 0)
DocNested == [s \in AllSelectors |-> IF s = ".item" THEN <<ROuter, RInner>> ELSE <<>>]
DocPoint  == [s \in AllSelectors |-> IF s = ".item" THEN <<RPoint, RItemB>> ELSE <<>>]
Layouts == {DocFull, DocMoved, DocNested, DocPoint}
Docs == {DocFull, DocMoved, DocEmpty}

\* ---------------------------------------------------------------- state
VARIABLES
  clients,     \* per PageOverrider: its cdpClient, 0 while unset, else the session id
  sessions,    \* CDP sessions created so far: sessions[id] = page it is bound to
  curPage,     \* stagehand.page: the current native page handle
  dom,         \* the document of the current page
  calls,       \* per caller task: position, locals and what it has issued
  requests,    \* history: number of newCDPSession requests so far (saturating)
  db,          \* the database: ids of the rows of its sessions and actions tables
  bb,          \* Browserbase: per remote session its state, and the release requests
  ops,         \* per server-action task (startSession, endSession): position and locals
  routes,      \* per request to a streaming route of the older server: its handler
  home         \* the state of the demo page (Home component) and its pending requests

vars == <<clients, sessions, curPage, dom, calls, requests, db, bb, ops, routes, home>>
server == <<db, bb, ops>>
front == <<routes, home>>

\* PageOverrider instances; the caller tasks of Spec and SpecSeq share the first
Facades == Calls
cdpClient == clients[1]

NoMember == [kind |-> "none", name |-> "", page |-> 0]
NoXY == [x |-> 0, y |-> 0]
NoArgs == [a1 |-> "", options |-> NoOptions]

\* ids Browserbase gives to the sessions it creates (uuids)
MaxSessions == 2
SessionIds == 1..MaxSessions
\* tasks that run the server actions startSession and endSession
MaxOps == 3
Ops == 1..MaxOps

EmptyDb == [sessions |-> {}, actions |-> {}]
NoRemote == [state |-> [id \in SessionIds |-> "none"], releases |-> <<>>]
IdleOp ==
  [ pc |-> "idle", kind |-> "", id |-> 0, fields |-> {}, result |-> "",
    via       |-> "",     \* "route" when called by the start-session endpoint
    hdrs      |-> {},     \* the headers the endpoint's request came with
    body      |-> "",     \* the body of the endpoint's request
    read      |-> FALSE,  \* request.json() was called
    status    |-> 0,      \* HTTP status the endpoint answered
    error     |-> "",     \* the error of its answer
    sessionId |-> 0 ]     \* the sessionId of its answer

\* requests to the streaming routes of the older server
MaxOld == 2
OldRequests == 1..MaxOld
\* a handler of such a route: the route, the parameters of the request, the
\* position of the handler, the status answered and what the handler did
NoRoute ==
  [ pc |-> "none", kind |-> "", params |-> {}, status |-> 0, inited |-> FALSE,
    thrown |-> FALSE, escaped |-> FALSE, trace |-> <<>> ]

\* debug-URL requests the page may have started in all
MaxDebug == 2
\* Home: the session of the store (0 for null), the debugUrl state (0 for
\* null, else the session it is the URL of), the API key field being filled,
\* the pending startSession, endSession and getSessionDebugUrl calls
NoHome ==
  [ session |-> 0, debugUrl |-> 0, apiKey |-> TRUE, starting |-> FALSE,
    ending |-> 0, pending |-> <<>>, started |-> 0, asked |-> 0 ]

\* log events the SDK puts on one stream, and enqueues it attempts on a closed one
MaxLogs == 2
MaxLate == 1

\* an execute request: position of its handler, its method, the step of the
\* example script, the HTTP status answered and the events put on its stream
NoRequest ==
  [ pc      |-> "none",
    method  |-> "",
    step    |-> 0,
    status  |-> 0,      \* HTTP status answered
    error   |-> "",     \* the error of a 4xx answer
    session |-> 0,      \* value of the browserbase-session-id header
    hdrs    |-> {},     \* the headers the request came with
    action  |-> 0,      \* id of the actions row inserted for the request
    events  |-> <<>>,   \* what has been enqueued on its stream
    late    |-> 0 ]     \* enqueues attempted on the closed stream

IdleCall ==
  [ pc      |-> "idle",
    op      |-> "",        \* the member name read on the facade
    facade  |-> 0,         \* the PageOverrider whose page was read
    target  |-> 0,         \* the handle wrapped by the Proxy the page getter returned
    member  |-> NoMember,  \* what the read returned
    args    |-> NoArgs,
    cdp     |-> 0,         \* local const cdpClient
    xy      |-> NoXY,      \* local const {x, y}, in half pixels
    reqPage |-> 0,         \* page handle passed to the pending newCDPSession/evaluate
    locPage |-> 0,         \* page of the native locator behind the wrapper
    lop     |-> "",
    lmember |-> NoMember,
    largs   |-> Undefined,
    result  |-> "",        \* "" pending, "ok", or the error
    log     |-> <<>>,      \* what the task has issued, in order
    req     |-> NoRequest ]  \* the execute request the task serves, if any

\* log entries
Entry(ev, cmd, session, params) ==
  [ev |-> ev, cmd |-> cmd, session |-> session, params |-> params]
NoParams == [none |-> TRUE]

\* variant: the constructor opens the session
Init_Eager ==
  /\ clients = [f \in Facades |-> 1]
  /\ sessions = <<1>>
  /\ curPage = 1
  /\ dom \in Docs
  /\ calls = [c \in Calls |-> IdleCall]
  /\ requests = 0
  /\ db = EmptyDb
  /\ bb = NoRemote
  /\ ops = [o \in Ops |-> IdleOp]
  /\ routes = [k \in OldRequests |-> NoRoute]
  /\ home = NoHome

\* new PageOverrider(stagehand): cdpClient is declared and left unset
Init ==
  /\ clients = [f \in Facades |-> 0]
  /\ sessions = <<>>
  /\ curPage = 1
  /\ dom \in Docs
  /\ calls = [c \in Calls |-> IdleCall]
  /\ requests = 0
  /\ db = EmptyDb
  /\ bb = NoRemote
  /\ ops = [o \in Ops |-> IdleOp]
  /\ routes = [k \in OldRequests |-> NoRoute]
  /\ home = NoHome

\* ------------------------------------------------- PageOverrider.page proxy
\* the intercepting closures hold the overrider, not the proxy's target
OverrideMember(name) == [kind |-> "override", name |-> name, page |-> 0]
LocatorFactory == [kind |-> "locatorFactory", name |-> "locator", page |-> 0]
\* Reflect.get(target, prop)
NativeMember(name, target) == [kind |-> "native", name |-> name, page |-> target]

\* variants of the get trap: act intercepted too; click not intercepted
PageGet_ActIntercepted(target, prop) ==
  IF prop = "goto" \/ prop = "act" THEN OverrideMember("goto")
  ELSE IF prop = "click" THEN OverrideMember("click")
  ELSE IF prop = "locator" THEN LocatorFactory
  ELSE NativeMember(prop, target)
PageGet_ClickNative(target, prop) ==
  IF prop = "goto" THEN OverrideMember("goto")
  ELSE IF prop = "locator" THEN LocatorFactory
  ELSE NativeMember(prop, target)

\* the get trap of the proxy around target
PageGet(target, prop) ==
  IF prop = "goto" THEN OverrideMember("goto")
  ELSE IF prop = "click" THEN OverrideMember("click")
  ELSE IF prop = "locator" THEN LocatorFactory
  ELSE NativeMember(prop, target)

\* the get trap of the proxy around a native locator
LocatorGet(target, prop) ==
  IF prop = "click" THEN OverrideMember("locator.click")
  ELSE NativeMember(prop, target)

\* LocatorOverrider.click(locator): the arguments the native click receives
LocatorClickArgs(args) == Undefined

\* ------------------------------------------------- PageOverrider.getCDPClient
NeedsCreate(client) == client = 0

\* ------------------------------------------------- PageOverrider.goto
OptReferer(options) == IF options.present THEN options.referer ELSE Undefined
NavigateParams_RefererDropped(url, options) == [url |-> url, referrer |-> Undefined]
NavigateParams(url, options) == [url |-> url, referrer |-> OptReferer(options)]

\* ------------------------------------------------- PageOverrider.click
\* variant: the far corner instead of the center
Center_Corner(rect) ==
  [x |-> 2 * (rect.left + rect.width), y |-> 2 * (rect.top + rect.height)]
\* center of a rectangle, in half pixels
Center(rect) == [x |-> 2 * rect.left + rect.width, y |-> 2 * rect.top + rect.height]
QuerySelector(doc, selector) == doc[selector]
MouseParams(type, xy) ==
  [type |-> type, x |-> xy.x, y |-> xy.y, button |-> "left", clickCount |-> 1]
FirstMouseType_Released == "mouseReleased"
FirstMouseType == "mousePressed"
SecondMouseType == "mouseReleased"
NotFoundError(selector) == "Element not found for selector: " \o selector


RejectionOf(cmd) == "rejected: " \o cmd

\* ---------------------------------------------------------------- helpers
Set(c, rec) == calls' = [calls EXCEPT ![c] = rec]
Logged(call, e) == [call EXCEPT !.log = Append(@, e)]
Finished(call, res) == [call EXCEPT !.pc = "done", !.result = res, !.reqPage = 0]

\* a task is between the invocation of a member and its settlement
InFlight(c) == calls[c].pc \notin {"idle", "wrapped", "got", "hasLocator", "gotLoc", "done"}

\* ---------------------------------------------------------------- caller
\* variant: the getter keeps wrapping the handle the facade started with
Wrapper_Stale(call, f, current) ==
  [call EXCEPT !.pc = "wrapped", !.facade = f, !.target = 1]

\* get page() of facade f: a new Proxy around the handle that is current
Wrapper(call, f, current) ==
  [call EXCEPT !.pc = "wrapped", !.facade = f, !.target = current]

\* const { page } = overrider
ReadPage(c, f) ==
  /\ calls[c].pc = "idle"
  /\ \A d \in 1..(c - 1) : calls[d].pc # "idle"   \* a new call takes the first free task
  /\ Set(c, Wrapper(calls[c], f, curPage))
  /\ UNCHANGED <<clients, sessions, curPage, dom, requests, server, front>>

\* variant: the get trap requests the session as soon as a member is read
ReadMember_Eager(c, prop) ==
  /\ calls[c].pc = "wrapped"
  /\ Set(c, Logged([calls[c] EXCEPT !.pc = "got", !.op = prop,
                                    !.member = PageGet(calls[c].target, prop)],
                   Entry("request", "newCDPSession", 0, NoParams)))
  /\ UNCHANGED <<clients, sessions, curPage, dom, requests, server, front>>

\* page.<prop> : the get trap of the Proxy answers the read
ReadMember(c, prop) ==
  /\ calls[c].pc = "wrapped"
  /\ Set(c, [calls[c] EXCEPT !.pc = "got", !.op = prop,
                             !.member = PageGet(calls[c].target, prop)])
  /\ UNCHANGED <<clients, sessions, curPage, dom, requests, server, front>>

\* getCDPClient up to its first await, run synchronously by goto and click
EnterGetCDPClient(call) ==
  IF NeedsCreate(clients[call.facade])
  THEN Logged([call EXCEPT !.pc = "creating", !.reqPage = curPage],
              Entry("request", "newCDPSession", 0, NoParams))
  ELSE [call EXCEPT !.pc = "haveCDP", !.cdp = clients[call.facade]]

RequestCounted(c) ==
  requests' = IF NeedsCreate(clients[calls[c].facade]) /\ requests < MaxRequests
              THEN requests + 1 ELSE requests

\* page.goto(url, options) through the facade
CallGoto(c, url, options) ==
  /\ calls[c].pc = "got"
  /\ calls[c].member.kind = "override"
  /\ calls[c].member.name = "goto"
  /\ RequestCounted(c)
  /\ Set(c, EnterGetCDPClient([calls[c] EXCEPT !.args = [a1 |-> url, options |-> options]]))
  /\ UNCHANGED <<clients, sessions, curPage, dom, server, front>>

\* variant: click looks the element up before it asks for the session
CallClick_EvaluateFirst(c, selector) ==
  /\ calls[c].pc = "got"
  /\ calls[c].member.kind = "override"
  /\ calls[c].member.name = "click"
  /\ Set(c, Logged([calls[c] EXCEPT !.pc = "evaluating", !.reqPage = curPage,
                                    !.args = [a1 |-> selector, options |-> NoOptions]],
                   Entry("request", "evaluate", 0, [selector |-> selector])))
  /\ UNCHANGED <<clients, sessions, curPage, dom, requests, server, front>>

\* page.click(selector) through the facade
CallClick(c, selector) ==
  /\ calls[c].pc = "got"
  /\ calls[c].member.kind = "override"
  /\ calls[c].member.name = "click"
  /\ RequestCounted(c)
  /\ Set(c, EnterGetCDPClient([calls[c] EXCEPT !.args = [a1 |-> selector, options |-> NoOptions]]))
  /\ UNCHANGED <<clients, sessions, curPage, dom, server, front>>

\* a member answered by Reflect.get is the native one: calling it runs the SDK
CallNative(c, a) ==
  /\ calls[c].pc = "got"
  /\ calls[c].member.kind = "native"
  /\ Set(c, Finished(Logged([calls[c] EXCEPT !.args = [a1 |-> a, options |-> NoOptions]],
                            Entry("native", "page." \o calls[c].member.name, 0,
                                  [page |-> calls[c].member.page, args |-> a])),
                     "ok"))
  /\ UNCHANGED <<clients, sessions, curPage, dom, requests, server, front>>

\* page.locator(selector, options): LocatorOverrider.locator
CallLocator(c, selector) ==
  /\ calls[c].pc = "got"
  /\ calls[c].member.kind = "locatorFactory"
  /\ Set(c, Logged([calls[c] EXCEPT !.pc = "hasLocator",
                                    !.args = [a1 |-> selector, options |-> NoOptions],
                                    !.locPage = curPage],
                   Entry("native", "page.locator", 0, [page |-> curPage, args |-> selector])))
  /\ UNCHANGED <<clients, sessions, curPage, dom, requests, server, front>>

ReadLocatorMember(c, prop) ==
  /\ calls[c].pc = "hasLocator"
  /\ Set(c, [calls[c] EXCEPT !.pc = "gotLoc", !.lop = prop,
                             !.lmember = LocatorGet(calls[c].locPage, prop)])
  /\ UNCHANGED <<clients, sessions, curPage, dom, requests, server, front>>

NativeLocatorCall(call, name, args) ==
  Entry("native", "locator." \o name, 0,
        [page |-> call.locPage, selector |-> call.args.a1, args |-> args])

\* variant: the native click is run twice
LocatorClick_Twice(call, args) ==
  <<NativeLocatorCall(call, "click", LocatorClickArgs(args)),
    NativeLocatorCall(call, "click", LocatorClickArgs(args))>>

\* LocatorOverrider.click(locator): the calls made on the native locator
LocatorClick(call, args) == <<NativeLocatorCall(call, "click", LocatorClickArgs(args))>>

\* the calls made on the native locator when the member read from the wrapper
\* is called with args
LocatorInvocation(call, args) ==
  IF call.lmember.kind = "override"
  THEN LocatorClick(call, args)
  ELSE <<NativeLocatorCall(call, call.lmember.name, args)>>

CallLocatorMember(c, args) ==
  /\ calls[c].pc = "gotLoc"
  /\ Set(c, Finished([calls[c] EXCEPT !.largs = args,
                                      !.log = @ \o LocatorInvocation(calls[c], args)],
                     "ok"))
  /\ UNCHANGED <<clients, sessions, curPage, dom, requests, server, front>>

\* ---------------------------------------------------------------- getCDPClient
\* this.cdpClient = await newCDPSession(page); return this.cdpClient
StoreSession_Dropped(old, new) == old
StoreSession(old, new) == new

CreateResolve(c) ==
  /\ calls[c].pc = "creating"
  /\ LET id == Len(sessions) + 1
     IN /\ sessions' = Append(sessions, calls[c].reqPage)
        /\ clients' = [clients EXCEPT ![calls[c].facade] = StoreSession(@, id)]
        /\ Set(c, Logged([calls[c] EXCEPT !.pc = "haveCDP", !.cdp = clients'[calls[c].facade],
                                          !.reqPage = 0],
                         Entry("resolve", "newCDPSession", id, NoParams)))
  /\ UNCHANGED <<curPage, dom, requests, server, front>>

\* variant: a failed creation is requested again by the same call
CreateReject_Retry(c) ==
  /\ calls[c].pc = "creating"
  /\ Set(c, Logged(Logged(calls[c], Entry("reject", "newCDPSession", 0, NoParams)),
                   Entry("request", "newCDPSession", 0, NoParams)))
  /\ UNCHANGED <<clients, sessions, curPage, dom, requests, server, front>>

\* newCDPSession rejects: the await in getCDPClient throws before the
\* assignment, and goto/click reject with the same error
CreateReject(c) ==
  /\ calls[c].pc = "creating"
  /\ Set(c, Finished(Logged(calls[c], Entry("reject", "newCDPSession", 0, NoParams)),
                     RejectionOf("newCDPSession")))
  /\ UNCHANGED <<clients, sessions, curPage, dom, requests, server, front>>

\* ---------------------------------------------------------------- goto
SendNavigate(c) ==
  /\ calls[c].pc = "haveCDP"
  /\ calls[c].member.name = "goto"
  /\ Set(c, Logged([calls[c] EXCEPT !.pc = "navigating"],
                   Entry("send", "Page.navigate", calls[c].cdp,
                         NavigateParams(calls[c].args.a1, calls[c].args.options))))
  /\ UNCHANGED <<clients, sessions, curPage, dom, requests, server, front>>

NavigateResolve(c) ==
  /\ calls[c].pc = "navigating"
  /\ Set(c, Finished(Logged(calls[c], Entry("resolve", "Page.navigate", calls[c].cdp, NoParams)),
                     "ok"))
  /\ UNCHANGED <<clients, sessions, curPage, dom, requests, server, front>>

NavigateReject(c) ==
  /\ calls[c].pc = "navigating"
  /\ Set(c, Finished(Logged(calls[c], Entry("reject", "Page.navigate", calls[c].cdp, NoParams)),
                     RejectionOf("Page.navigate")))
  /\ UNCHANGED <<clients, sessions, curPage, dom, requests, server, front>>

\* ---------------------------------------------------------------- click
\* the document an evaluation on page sees: dom for the current page; a page
\* that is no longer the current one may hold any document
DocumentOf(page) == IF page = curPage THEN {dom} ELSE Docs

\* this.stagehand.page.evaluate(fn, selector) is started on the current page
StartEvaluate(c) ==
  /\ calls[c].pc = "haveCDP"
  /\ calls[c].member.name = "click"
  /\ Set(c, Logged([calls[c] EXCEPT !.pc = "evaluating", !.reqPage = curPage],
                   Entry("request", "evaluate", 0, [selector |-> calls[c].args.a1])))
  /\ UNCHANGED <<clients, sessions, curPage, dom, requests, server, front>>

\* variant: a missing element is not reported
EvaluateFn_NoThrow(doc, selector) ==
  LET element == QuerySelector(doc, selector)
  IN IF element = <<>>
     THEN [throws |-> FALSE, error |-> "", xy |-> NoXY]
     ELSE [throws |-> FALSE, error |-> "", xy |-> Center(element[1])]

\* variant: the geometry of the first layout is reused
EvaluateFn_Cached(doc, selector) ==
  LET element == QuerySelector(DocFull, selector)
  IN IF element = <<>>
     THEN [throws |-> TRUE, error |-> NotFoundError(selector), xy |-> NoXY]
     ELSE [throws |-> FALSE, error |-> "", xy |-> Center(element[1])]

\* variant: the last matching element is taken
EvaluateFn_LastMatch(doc, selector) ==
  LET element == QuerySelector(doc, selector)
  IN IF element = <<>>
     THEN [throws |-> TRUE, error |-> NotFoundError(selector), xy |-> NoXY]
     ELSE [throws |-> FALSE, error |-> "", xy |-> Center(element[Len(element)])]

\* the function passed to evaluate, run against a document
EvaluateFn(doc, selector) ==
  LET element == QuerySelector(doc, selector)
  IN IF element = <<>>
     THEN [throws |-> TRUE, error |-> NotFoundError(selector), xy |-> NoXY]
     ELSE [throws |-> FALSE, error |-> "", xy |-> Center(element[1])]

\* what the page held when the function ran (an observation, not program state)
Lookup(doc, selector) ==
  Entry("lookup", "evaluate", 0, [matches |-> doc[selector]])

\* the function runs in the page and returns the center; the continuation
\* sends the first mouse event
EvaluateFound(c) ==
  /\ calls[c].pc = "evaluating"
  /\ \E doc \in DocumentOf(calls[c].reqPage) :
       LET r == EvaluateFn(doc, calls[c].args.a1)
       IN /\ ~r.throws
          /\ Set(c, Logged(Logged([calls[c] EXCEPT !.pc = "pressing", !.xy = r.xy, !.reqPage = 0],
                                  Lookup(doc, calls[c].args.a1)),
                           Entry("send", "Input.dispatchMouseEvent", calls[c].cdp,
                                 MouseParams(FirstMouseType, r.xy))))
  /\ UNCHANGED <<clients, sessions, curPage, dom, requests, server, front>>

\* the function runs in the page and throws; evaluate and click reject with it
EvaluateNotFound(c) ==
  /\ calls[c].pc = "evaluating"
  /\ \E doc \in DocumentOf(calls[c].reqPage) :
       LET r == EvaluateFn(doc, calls[c].args.a1)
       IN /\ r.throws
          /\ Set(c, Finished(Logged(calls[c], Lookup(doc, calls[c].args.a1)), r.error))
  /\ UNCHANGED <<clients, sessions, curPage, dom, requests, server, front>>

\* the evaluation itself fails (page closed, context destroyed)
EvaluateReject(c) ==
  /\ calls[c].pc = "evaluating"
  /\ Set(c, Finished(Logged(calls[c], Entry("reject", "evaluate", 0, NoParams)),
                     RejectionOf("evaluate")))
  /\ UNCHANGED <<clients, sessions, curPage, dom, requests, server, front>>

\* the first dispatch completes and the continuation sends the second
PressResolve(c) ==
  /\ calls[c].pc = "pressing"
  /\ Set(c, Logged(Logged([calls[c] EXCEPT !.pc = "releasing"],
                          Entry("resolve", "Input.dispatchMouseEvent", calls[c].cdp, NoParams)),
                   Entry("send", "Input.dispatchMouseEvent", calls[c].cdp,
                         MouseParams(SecondMouseType, calls[c].xy))))
  /\ UNCHANGED <<clients, sessions, curPage, dom, requests, server, front>>

\* variant: the failure of the press is swallowed and the release is sent
PressReject_Swallowed(c) ==
  /\ calls[c].pc = "pressing"
  /\ Set(c, Logged(Logged([calls[c] EXCEPT !.pc = "releasing"],
                          Entry("reject", "Input.dispatchMouseEvent", calls[c].cdp, NoParams)),
                   Entry("send", "Input.dispatchMouseEvent", calls[c].cdp,
                         MouseParams(SecondMouseType, calls[c].xy))))
  /\ UNCHANGED <<clients, sessions, curPage, dom, requests, server, front>>

\* the first dispatch rejects: the await throws and click rejects with it
PressReject(c) ==
  /\ calls[c].pc = "pressing"
  /\ Set(c, Finished(Logged(calls[c], Entry("reject", "Input.dispatchMouseEvent", calls[c].cdp, NoParams)),
                     RejectionOf("Input.dispatchMouseEvent")))
  /\ UNCHANGED <<clients, sessions, curPage, dom, requests, server, front>>

ReleaseResolve(c) ==
  /\ calls[c].pc = "releasing"
  /\ Set(c, Finished(Logged(calls[c], Entry("resolve", "Input.dispatchMouseEvent", calls[c].cdp, NoParams)),
                     "ok"))
  /\ UNCHANGED <<clients, sessions, curPage, dom, requests, server, front>>

ReleaseReject(c) ==
  /\ calls[c].pc = "releasing"
  /\ Set(c, Finished(Logged(calls[c], Entry("reject", "Input.dispatchMouseEvent", calls[c].cdp, NoParams)),
                     RejectionOf("Input.dispatchMouseEvent")))
  /\ UNCHANGED <<clients, sessions, curPage, dom, requests, server, front>>

\* the caller's await has settled; the task is free for its next call
Return(c) ==
  /\ calls[c].pc = "done"
  /\ Set(c, IdleCall)
  /\ UNCHANGED <<clients, sessions, curPage, dom, requests, server, front>>

\* ---------------------------------------------------------------- environment
\* the page's layout or content changes
DomChange ==
  /\ \E d \in Docs \ {dom} : dom' = d
  /\ UNCHANGED <<clients, sessions, curPage, calls, requests, server, front>>

\* the SDK's current page handle is replaced (a new tab becomes the page)
SwitchPage ==
  /\ curPage < MaxPages
  /\ curPage' = curPage + 1
  /\ dom' \in Docs
  /\ UNCHANGED <<clients, sessions, calls, requests, server, front>>

\* ---------------------------------------------------------------- specification
CallStep(c) ==
  \/ ReadPage(c, 1)
  \/ \E prop \in PageProps : ReadMember(c, prop)
  \/ \E url \in Urls, options \in GotoOptionsSet : CallGoto(c, url, options)
  \/ \E selector \in Selectors : CallClick(c, selector)
  \/ \E a \in NativeArgs : CallNative(c, a)
  \/ \E selector \in LocatorSelectors : CallLocator(c, selector)
  \/ \E prop \in LocatorProps : ReadLocatorMember(c, prop)
  \/ \E args \in LocatorArgs : CallLocatorMember(c, args)
  \/ CreateResolve(c)
  \/ CreateReject(c)
  \/ SendNavigate(c)
  \/ NavigateResolve(c)
  \/ NavigateReject(c)
  \/ StartEvaluate(c)
  \/ EvaluateFound(c)
  \/ EvaluateNotFound(c)
  \/ EvaluateReject(c)
  \/ PressResolve(c)
  \/ PressReject(c)
  \/ ReleaseResolve(c)
  \/ ReleaseReject(c)
  \/ Return(c)

Env == DomChange \/ SwitchPage

\* tasks run concurrently: a member may be invoked while others are pending
Next == (\E c \in Calls : CallStep(c)) \/ Env

Spec == Init /\ [][Next]_vars

\* the caller awaits every call before it starts the next one
NextSeq ==
  \/ \E c \in Calls : (\A d \in Calls \ {c} : ~InFlight(d)) /\ CallStep(c)
  \/ Env

SpecSeq == Init /\ [][NextSeq]_vars

\* one caller clicking through the facade while the page is laid out anew
Relayout ==
  /\ \E d \in Layouts \ {dom} : dom' = d
  /\ UNCHANGED <<clients, sessions, curPage, calls, requests, server, front>>

InitClick ==
  /\ clients = [f \in Facades |-> 0]
  /\ sessions = <<>>
  /\ curPage = 1
  /\ dom \in Layouts
  /\ calls = [c \in Calls |-> IdleCall]
  /\ requests = 0
  /\ db = EmptyDb
  /\ bb = NoRemote
  /\ ops = [o \in Ops |-> IdleOp]
  /\ routes = [k \in OldRequests |-> NoRoute]
  /\ home = NoHome

NextClick == CallStep(1) \/ Relayout

SpecClick == InitClick /\ [][NextClick]_vars

\* ================================================================ execute route
\* POST /api/execute: request r is served by task r
Requests == Calls
Methods == PageProps \cup {"example"}
Headers == {"browserbase-session-id", "browserbase-api-key", "browserbase-project-id"}

\* variant: the API key is tested before the session id
FirstMissing_KeyFirst(hdrs) ==
  IF "browserbase-api-key" \notin hdrs THEN "browserbase-api-key"
  ELSE IF "browserbase-session-id" \notin hdrs THEN "browserbase-session-id"
  ELSE IF "browserbase-project-id" \notin hdrs THEN "browserbase-project-id"
  ELSE ""

\* the first header found missing, in the order the handler tests them
FirstMissing(hdrs) ==
  IF "browserbase-session-id" \notin hdrs THEN "browserbase-session-id"
  ELSE IF "browserbase-api-key" \notin hdrs THEN "browserbase-api-key"
  ELSE IF "browserbase-project-id" \notin hdrs THEN "browserbase-project-id"
  ELSE ""

\* variant: one PageOverrider serves all requests
FacadeOf_Shared(r) == 1
\* const { page } = new PageOverrider(stagehand): a facade of the request's own
FacadeOf(r) == r

\* the error answered for a missing header (the header name is in backquotes
\* in the source)
MissingMessage(header) ==
  IF header = "browserbase-session-id"
  THEN "Browserbase session ID is required as a 'browserbase-session-id' header"
  ELSE IF header = "browserbase-api-key"
  THEN "Browserbase API key is required as a 'browserbase-api-key' header"
  ELSE "Browserbase project ID is required as a 'browserbase-project-id' header"

\* enqueueData: system events carry a status and the id of the action
SystemEvent(status, action) == [type |-> "system", status |-> status, actionId |-> action]
LogEvent(action) == [type |-> "log", status |-> "running", actionId |-> action]
Emit(req, status) == [req EXCEPT !.events = Append(@, SystemEvent(status, req.action))]
SetReq(r, req) == calls' = [calls EXCEPT ![r].req = req]
\* NextResponse.json({ error }, { status }): the handler returns without a stream
Answer(req, status, error) ==
  [NoRequest EXCEPT !.pc = "answered", !.status = status, !.error = error,
                    !.session = req.session, !.hdrs = req.hdrs]
\* a rejected query: the handler throws
Thrown(req) ==
  [NoRequest EXCEPT !.pc = "failed", !.status = 500, !.session = req.session,
                    !.hdrs = req.hdrs]

\* the id a new actions row gets (a random uuid: one per row)
ActionId(r) == r
\* insert(...).returning(): the rows the statement inserted
Returning(id) == <<id>>

\* the handler up to its first query: the body is parsed, the headers are
\* read and tested in order (400), and the sessions row is asked for
PostRequest(r, method, hdrs, id) ==
  /\ calls[r].req.pc = "none"
  /\ \A q \in 1..(r - 1) : calls[q].req.pc # "none"
  /\ SetReq(r, IF FirstMissing(hdrs) # ""
               THEN Answer([NoRequest EXCEPT !.hdrs = hdrs], 400,
                           MissingMessage(FirstMissing(hdrs)))
               ELSE [NoRequest EXCEPT !.pc = "lookup", !.method = method,
                                      !.session = id, !.hdrs = hdrs])
  /\ UNCHANGED <<clients, sessions, curPage, dom, requests, server, front>>

\* findFirst resolves: 404 when no sessions row has the id, else the actions
\* row is inserted
LookupResolve(r) ==
  /\ calls[r].req.pc = "lookup"
  /\ SetReq(r, IF calls[r].req.session \notin db.sessions
               THEN Answer(calls[r].req, 404, "Session not found")
               ELSE [calls[r].req EXCEPT !.pc = "inserting"])
  /\ UNCHANGED <<clients, sessions, curPage, dom, requests, server, front>>

\* findFirst rejects: the handler throws
LookupReject(r) ==
  /\ calls[r].req.pc = "lookup"
  /\ SetReq(r, Thrown(calls[r].req))
  /\ UNCHANGED <<clients, sessions, curPage, dom, requests, server, front>>

\* the insert resolves with the new row: the stream is made and its start
\* callback enqueues "starting" and constructs the Stagehand
InsertResolve(r) ==
  /\ calls[r].req.pc = "inserting"
  /\ db' = [db EXCEPT !.actions = @ \cup {ActionId(r)}]
  /\ LET returned == Returning(ActionId(r))
     IN SetReq(r, IF returned = <<>>
                  THEN Answer(calls[r].req, 404, "Action created but not found")
                  ELSE Emit([calls[r].req EXCEPT !.pc = "opened", !.status = 200,
                                                !.action = returned[1]],
                            "starting"))
  /\ UNCHANGED <<clients, sessions, curPage, dom, requests, bb, ops, front>>

\* the insert rejects: the handler throws
InsertReject(r) ==
  /\ calls[r].req.pc = "inserting"
  /\ SetReq(r, Thrown(calls[r].req))
  /\ UNCHANGED <<clients, sessions, curPage, dom, requests, server, front>>

\* await stagehand.init() resolves: "connected" is enqueued and the page of a
\* new PageOverrider is read
InitResolve(r) ==
  /\ calls[r].req.pc = "opened"
  /\ Set(r, [Wrapper(calls[r], FacadeOf(r), curPage)
               EXCEPT !.req = Emit([calls[r].req EXCEPT !.pc = "connected", !.step = 1],
                                   "connected")])
  /\ UNCHANGED <<clients, sessions, curPage, dom, requests, server, front>>

\* await stagehand.init() rejects: the start callback throws
InitReject(r) ==
  /\ calls[r].req.pc = "opened"
  /\ SetReq(r, [calls[r].req EXCEPT !.pc = "crashed"])
  /\ UNCHANGED <<clients, sessions, curPage, dom, requests, server, front>>

\* the protocol and page steps of a call that is under way
Pending(c) ==
  \/ CreateResolve(c)
  \/ CreateReject(c)
  \/ SendNavigate(c)
  \/ NavigateResolve(c)
  \/ NavigateReject(c)
  \/ StartEvaluate(c)
  \/ EvaluateFound(c)
  \/ EvaluateNotFound(c)
  \/ EvaluateReject(c)
  \/ PressResolve(c)
  \/ PressReject(c)
  \/ ReleaseResolve(c)
  \/ ReleaseReject(c)

\* page.act / extract / observe (args[0]) and page[method](...args)
Dispatch(r) ==
  /\ calls[r].req.pc = "connected"
  /\ calls[r].req.method # "example"
  /\ \/ ReadMember(r, calls[r].req.method)
     \/ \E url \in Urls, options \in GotoOptionsSet : CallGoto(r, url, options)
     \/ \E selector \in Selectors : CallClick(r, selector)
     \/ \E a \in NativeArgs : CallNative(r, a)
     \/ \E selector \in LocatorSelectors : CallLocator(r, selector)
     \/ Pending(r)

\* example(page): the awaited statements of the script, one after another
Example(r) ==
  /\ calls[r].req.pc = "connected"
  /\ calls[r].req.method = "example"
  /\ LET step == ExampleScript[calls[r].req.step]
     IN \/ ReadMember(r, step.prop)
        \/ CallGoto(r, ExampleUrl, NoOptions)
        \/ CallLocator(r, ExampleLocator)
        \/ ReadLocatorMember(r, step.lprop)
        \/ CallLocatorMember(r, step.largs)
        \/ CallClick(r, ExampleClick)
        \/ Pending(r)

\* an awaited statement of the script has completed: the next one starts on
\* the same page wrapper
ExampleContinue(r) ==
  /\ calls[r].req.pc = "connected"
  /\ calls[r].req.method = "example"
  /\ calls[r].pc = "done" /\ calls[r].result = "ok"
  /\ calls[r].req.step < Len(ExampleScript)
  /\ Set(r, [IdleCall EXCEPT !.pc = "wrapped", !.facade = calls[r].facade,
                             !.target = calls[r].target, !.log = calls[r].log,
                             !.req = [calls[r].req EXCEPT !.step = @ + 1]])
  /\ UNCHANGED <<clients, sessions, curPage, dom, requests, server, front>>

\* the awaited method has returned: "finished" is enqueued, the stream closed
Completed(call) ==
  IF call.req.method = "example"
  THEN call.pc = "done" /\ call.result = "ok" /\ call.req.step = Len(ExampleScript)
  ELSE \/ call.pc = "done" /\ call.result = "ok"
       \/ call.pc = "hasLocator"

Finish(r) ==
  /\ calls[r].req.pc = "connected"
  /\ Completed(calls[r])
  /\ SetReq(r, Emit([calls[r].req EXCEPT !.pc = "closed"], "finished"))
  /\ UNCHANGED <<clients, sessions, curPage, dom, requests, server, front>>

\* variant: the finished event is enqueued before the error event
Catch_FinishedFirst(r) ==
  /\ calls[r].req.pc = "connected"
  /\ calls[r].pc = "done" /\ calls[r].result # "ok"
  /\ SetReq(r, Emit(Emit([calls[r].req EXCEPT !.pc = "closed"], "finished"), "error"))
  /\ UNCHANGED <<clients, sessions, curPage, dom, requests, server, front>>

\* variant: the error of the awaited method is not caught
Catch_Rethrow(r) ==
  /\ calls[r].req.pc = "connected"
  /\ calls[r].pc = "done" /\ calls[r].result # "ok"
  /\ SetReq(r, [calls[r].req EXCEPT !.pc = "crashed"])
  /\ UNCHANGED <<clients, sessions, curPage, dom, requests, server, front>>

\* the awaited method has thrown: catch enqueues "error", then "finished" is
\* enqueued and the stream closed
Catch(r) ==
  /\ calls[r].req.pc = "connected"
  /\ calls[r].pc = "done" /\ calls[r].result # "ok"
  /\ SetReq(r, Emit(Emit([calls[r].req EXCEPT !.pc = "closed"], "error"), "finished"))
  /\ UNCHANGED <<clients, sessions, curPage, dom, requests, server, front>>

RequestStep(r) ==
  \/ \E method \in Methods, hdrs \in SUBSET Headers, id \in SessionIds :
       PostRequest(r, method, hdrs, id)
  \/ LookupResolve(r)
  \/ LookupReject(r)
  \/ InsertResolve(r)
  \/ InsertReject(r)
  \/ InitResolve(r)
  \/ InitReject(r)
  \/ Dispatch(r)
  \/ Example(r)
  \/ ExampleContinue(r)
  \/ Finish(r)
  \/ Catch(r)

\* requests are served concurrently, each on a Stagehand of its own; the page
\* they drive changes under them
NextExecute == (\E r \in Requests : RequestStep(r)) \/ DomChange

\* the Stagehand of request r calls the logger it was constructed with:
\* enqueueData puts a log event on the stream, and controller.enqueue throws
\* when the stream is closed or errored
Log(r) ==
  /\ calls[r].req.pc \in {"opened", "connected", "closed", "crashed"}
  /\ IF calls[r].req.pc \in {"opened", "connected"}
     THEN /\ Len(SelectSeq(calls[r].req.events, LAMBDA e : e.type = "log")) < MaxLogs
          /\ SetReq(r, [calls[r].req EXCEPT !.events = Append(@, LogEvent(calls[r].req.action))])
     ELSE /\ calls[r].req.late < MaxLate
          /\ SetReq(r, [calls[r].req EXCEPT !.late = @ + 1])
  /\ UNCHANGED <<clients, sessions, curPage, dom, requests, server, front>>

\* a session has been started: its row is in the database
StartedDb == [sessions |-> {1}, actions |-> {}]
StartedRemote == [state |-> [id \in SessionIds |-> IF id = 1 THEN "created" ELSE "none"],
                  releases |-> <<>>]
InitExecute ==
  /\ clients = [f \in Facades |-> 0]
  /\ sessions = <<>>
  /\ curPage = 1
  /\ dom \in Docs
  /\ calls = [c \in Calls |-> IdleCall]
  /\ requests = 0
  /\ db = StartedDb
  /\ bb = StartedRemote
  /\ ops = [o \in Ops |-> IdleOp]
  /\ routes = [k \in OldRequests |-> NoRoute]
  /\ home = NoHome

SpecExecute == InitExecute /\ [][NextExecute]_vars

\* the streams of requests for an intercepted and for a native method, with
\* the log lines of the SDK
StreamMethods == {"goto", "act"}
StreamStep(r) ==
  \/ \E method \in StreamMethods, hdrs \in SUBSET Headers, id \in SessionIds :
       PostRequest(r, method, hdrs, id)
  \/ LookupResolve(r)
  \/ LookupReject(r)
  \/ InsertResolve(r)
  \/ InsertReject(r)
  \/ InitResolve(r)
  \/ InitReject(r)
  \/ Dispatch(r)
  \/ Finish(r)
  \/ Catch(r)
  \/ Log(r)

NextStream == \E r \in Requests : StreamStep(r)

SpecStream == InitExecute /\ [][NextStream]_vars

\* ------------------------------------------- startSession and endSession
\* the fields startSession requires
SessionFields == {"browserbaseApiKey", "browserbaseProjectId", "modelApiKey"}
SetOp(o, op) == ops' = [ops EXCEPT ![o] = op]
FreeOp(o) == ops[o].pc = "idle" /\ \A p \in 1..(o - 1) : ops[p].pc # "idle"
\* the ids Browserbase has not given to a session yet
FreshIds == {id \in SessionIds : bb.state[id] = "none"}

\* variant: the required fields are not tested
StartSession_Unchecked(o, fields) ==
  /\ FreeOp(o)
  /\ SetOp(o, [IdleOp EXCEPT !.pc = "creating", !.kind = "start", !.fields = fields])
  /\ UNCHANGED <<clients, sessions, curPage, dom, calls, requests, db, bb, front>>

\* startSession up to its first await: the required fields are tested, then
\* bb.sessions.create is called
StartSession(o, fields) ==
  /\ FreeOp(o)
  /\ SetOp(o, IF fields # SessionFields
              THEN [IdleOp EXCEPT !.pc = "failed", !.kind = "start", !.fields = fields,
                                  !.result = "Missing required fields"]
              ELSE [IdleOp EXCEPT !.pc = "creating", !.kind = "start", !.fields = fields])
  /\ UNCHANGED <<clients, sessions, curPage, dom, calls, requests, db, bb, front>>

\* bb.sessions.create resolves with a new remote session: its row is inserted
RemoteCreateResolve(o) ==
  /\ ops[o].pc = "creating"
  /\ \E id \in FreshIds :
       /\ \A other \in FreshIds : id <= other
       /\ bb' = [bb EXCEPT !.state[id] = "created"]
       /\ SetOp(o, [ops[o] EXCEPT !.pc = "inserting", !.id = id])
  /\ UNCHANGED <<clients, sessions, curPage, dom, calls, requests, db, front>>

\* bb.sessions.create rejects: startSession throws
RemoteCreateReject(o) ==
  /\ ops[o].pc = "creating"
  /\ SetOp(o, [ops[o] EXCEPT !.pc = "failed", !.result = "create failed"])
  /\ UNCHANGED <<clients, sessions, curPage, dom, calls, requests, db, bb, front>>

\* the insert of the sessions row resolves: startSession returns the session
SessionInsertResolve(o) ==
  /\ ops[o].pc = "inserting"
  /\ db' = [db EXCEPT !.sessions = @ \cup {ops[o].id}]
  /\ SetOp(o, [ops[o] EXCEPT !.pc = "done", !.result = "session"])
  /\ UNCHANGED <<clients, sessions, curPage, dom, calls, requests, bb, front>>

\* the insert of the sessions row rejects: startSession throws
SessionInsertReject(o) ==
  /\ ops[o].pc = "inserting"
  /\ SetOp(o, [ops[o] EXCEPT !.pc = "failed", !.result = "insert failed"])
  /\ UNCHANGED <<clients, sessions, curPage, dom, calls, requests, db, bb, front>>

\* the ids callers can pass to endSession: the id of a remote session is
\* a uuid that reaches them only in the value startSession returns
ReturnedIds == {ops[o].id : o \in {p \in Ops : ops[p].kind = "start" /\ ops[p].pc = "done"}}

\* endSession up to its first await: bb.sessions.update sends the request to
\* release the remote session
EndSession(o, id) ==
  /\ FreeOp(o)
  /\ id \in ReturnedIds
  /\ bb' = [bb EXCEPT !.releases = Append(@, id)]
  /\ SetOp(o, [IdleOp EXCEPT !.pc = "releasing", !.kind = "end", !.id = id])
  /\ UNCHANGED <<clients, sessions, curPage, dom, calls, requests, db, front>>

\* bb.sessions.update resolves (Browserbase knows the session): the delete
\* of the sessions row is issued
RemoteReleaseResolve(o) ==
  /\ ops[o].pc = "releasing"
  /\ bb.state[ops[o].id] # "none"
  /\ bb' = [bb EXCEPT !.state[ops[o].id] = "released"]
  /\ SetOp(o, [ops[o] EXCEPT !.pc = "deleting"])
  /\ UNCHANGED <<clients, sessions, curPage, dom, calls, requests, db, front>>

\* variant: the rejection of the release request is swallowed
RemoteReleaseReject_Swallowed(o) ==
  /\ ops[o].pc = "releasing"
  /\ SetOp(o, [ops[o] EXCEPT !.pc = "deleting"])
  /\ UNCHANGED <<clients, sessions, curPage, dom, calls, requests, db, bb, front>>

\* bb.sessions.update rejects: endSession throws before the delete
RemoteReleaseReject(o) ==
  /\ ops[o].pc = "releasing"
  /\ SetOp(o, [ops[o] EXCEPT !.pc = "failed", !.result = "release failed"])
  /\ UNCHANGED <<clients, sessions, curPage, dom, calls, requests, db, bb, front>>

\* the delete resolves: no sessions row has the id any more
SessionDeleteResolve(o) ==
  /\ ops[o].pc = "deleting"
  /\ db' = [db EXCEPT !.sessions = @ \ {ops[o].id}]
  /\ SetOp(o, [ops[o] EXCEPT !.pc = "done"])
  /\ UNCHANGED <<clients, sessions, curPage, dom, calls, requests, bb, front>>

\* the delete rejects: endSession throws
SessionDeleteReject(o) ==
  /\ ops[o].pc = "deleting"
  /\ SetOp(o, [ops[o] EXCEPT !.pc = "failed", !.result = "delete failed"])
  /\ UNCHANGED <<clients, sessions, curPage, dom, calls, requests, db, bb, front>>

OpStep(o) ==
  \/ \E fields \in SUBSET SessionFields : StartSession(o, fields)
  \/ RemoteCreateResolve(o)
  \/ RemoteCreateReject(o)
  \/ SessionInsertResolve(o)
  \/ SessionInsertReject(o)
  \/ \E id \in SessionIds : EndSession(o, id)
  \/ RemoteReleaseResolve(o)
  \/ RemoteReleaseReject(o)
  \/ SessionDeleteResolve(o)
  \/ SessionDeleteReject(o)

\* an execute request up to the opening of its stream
AdmitStep(r) ==
  \/ \E id \in SessionIds : PostRequest(r, "goto", Headers, id)
  \/ LookupResolve(r)
  \/ LookupReject(r)
  \/ InsertResolve(r)
  \/ InsertReject(r)

NextSessions == (\E o \in Ops : OpStep(o)) \/ (\E r \in Requests : AdmitStep(r))

InitSessions ==
  /\ clients = [f \in Facades |-> 0]
  /\ sessions = <<>>
  /\ curPage = 1
  /\ dom = DocFull
  /\ calls = [c \in Calls |-> IdleCall]
  /\ requests = 0
  /\ db = EmptyDb
  /\ bb = NoRemote
  /\ ops = [o \in Ops |-> IdleOp]
  /\ routes = [k \in OldRequests |-> NoRoute]
  /\ home = NoHome

\* the server actions and the execute requests of the clients, interleaved
SpecSessions == InitSessions /\ [][NextSessions]_vars

\* ------------------------------------------------ start-session endpoint
StartHeaders == {"browserbase-api-key", "browserbase-project-id", "model-api-key"}
\* request bodies: a JSON object, the JSON value null, text that is not JSON
Bodies == {"object", "null", "invalid"}
\* the argument of startSession: the three header values, by field
FieldOf(header) ==
  IF header = "browserbase-api-key" THEN "browserbaseApiKey"
  ELSE IF header = "browserbase-project-id" THEN "browserbaseProjectId"
  ELSE "modelApiKey"
FieldsOf(hdrs) == {FieldOf(h) : h \in hdrs}
\* NextResponse.json({ error }, { status })
Respond(op, status, error) == [op EXCEPT !.status = status, !.error = error]
Failed500(op) == Respond(op, 500, "Failed to start session")

\* the handler up to its first await after the headers: 400 when one of the
\* three headers is missing, else request.json() is called
PostStartSession(o, hdrs, body) ==
  /\ FreeOp(o)
  /\ SetOp(o, IF hdrs # StartHeaders
              THEN Respond([IdleOp EXCEPT !.pc = "answered", !.via = "route", !.hdrs = hdrs],
                           400, "Missing required API keys in headers")
              ELSE [IdleOp EXCEPT !.pc = "reading", !.via = "route", !.hdrs = hdrs,
                                  !.body = body, !.read = TRUE])
  /\ UNCHANGED <<clients, sessions, curPage, dom, calls, requests, db, bb, front>>

\* request.json() resolves: the body is destructured (a TypeError for null,
\* caught) and startSession is called with the header values
BodyResolve(o) ==
  /\ ops[o].pc = "reading" /\ ops[o].body # "invalid"
  /\ SetOp(o, IF ops[o].body = "null"
              THEN Failed500([ops[o] EXCEPT !.pc = "answered"])
              ELSE IF FieldsOf(ops[o].hdrs) # SessionFields
              THEN Failed500([ops[o] EXCEPT !.pc = "answered", !.kind = "start",
                                            !.fields = FieldsOf(ops[o].hdrs),
                                            !.result = "Missing required fields"])
              ELSE [ops[o] EXCEPT !.pc = "creating", !.kind = "start",
                                  !.fields = FieldsOf(ops[o].hdrs)])
  /\ UNCHANGED <<clients, sessions, curPage, dom, calls, requests, db, bb, front>>

\* request.json() rejects (the body is not JSON): caught, 500
BodyReject(o) ==
  /\ ops[o].pc = "reading" /\ ops[o].body = "invalid"
  /\ SetOp(o, Failed500([ops[o] EXCEPT !.pc = "answered"]))
  /\ UNCHANGED <<clients, sessions, curPage, dom, calls, requests, db, bb, front>>

\* startSession returned: the id of its session is answered
StartReturn(o) ==
  /\ ops[o].via = "route" /\ ops[o].pc = "done" /\ ops[o].status = 0
  /\ SetOp(o, [ops[o] EXCEPT !.status = 200, !.sessionId = ops[o].id])
  /\ UNCHANGED <<clients, sessions, curPage, dom, calls, requests, db, bb, front>>

\* variant: the error of startSession is thrown again by the handler
StartCatch_Rethrow(o) ==
  /\ ops[o].via = "route" /\ ops[o].pc = "failed" /\ ops[o].status = 0
  /\ SetOp(o, [ops[o] EXCEPT !.pc = "escaped"])
  /\ UNCHANGED <<clients, sessions, curPage, dom, calls, requests, db, bb, front>>

\* startSession threw: caught, 500
StartCatch(o) ==
  /\ ops[o].via = "route" /\ ops[o].pc = "failed" /\ ops[o].status = 0
  /\ SetOp(o, Failed500(ops[o]))
  /\ UNCHANGED <<clients, sessions, curPage, dom, calls, requests, db, bb, front>>

StartRouteStep(o) ==
  \/ \E hdrs \in SUBSET StartHeaders, body \in Bodies : PostStartSession(o, hdrs, body)
  \/ BodyResolve(o)
  \/ BodyReject(o)
  \/ RemoteCreateResolve(o)
  \/ RemoteCreateReject(o)
  \/ SessionInsertResolve(o)
  \/ SessionInsertReject(o)
  \/ StartReturn(o)
  \/ StartCatch(o)

NextStartRoute == \E o \in Ops : StartRouteStep(o)

\* requests to the start-session endpoint, interleaved
SpecStartRoute == InitSessions /\ [][NextStartRoute]_vars

\* ----------------------------------- streaming routes of the older server
\* the POST routes: act, extract, observe and the goto route
RouteKinds == {"act", "extract", "observe", "goto"}
\* the parameters a request body may carry (truthy values)
Params == {"action", "url", "instruction", "schemaDefinition"}
\* the parameters a route tests before it makes its stream
Required(kind) ==
  IF kind = "act" THEN {"action"}
  ELSE IF kind = "extract" THEN {"instruction", "schemaDefinition"}
  ELSE IF kind = "goto" THEN {"url"}
  ELSE {}
SetRoute(k, route) == routes' = [routes EXCEPT ![k] = route]
Did(route, what) == [route EXCEPT !.trace = @ \o what]

\* variant: the Stagehand is closed before the stream
Finally_StagehandFirst(route) ==
  Did([route EXCEPT !.pc = "closing"], <<"stagehand.close", "controller.close">>)
\* finally { controller.close(); await stagehand.close(); }
Finally(route) ==
  Did([route EXCEPT !.pc = "closing"], <<"controller.close", "stagehand.close">>)
\* catch (error) { logger.log({ category: "error", ... }) } and the finally
CatchOld(route) == Finally(Did([route EXCEPT !.thrown = TRUE], <<"log:error">>))
\* the AI call of the route and the log line of its result
AiCall(kind) == IF kind = "act" THEN "act" ELSE kind
ResultLog(kind) == IF kind = "act" THEN <<>> ELSE <<"log:" \o kind>>

\* the handler up to the start of its stream: the body is read, the required
\* parameters are tested (400), the stream is made and initStagehand called
PostOld(k, kind, params) ==
  /\ routes[k].pc = "none"
  /\ \A j \in 1..(k - 1) : routes[j].pc # "none"
  /\ SetRoute(k, IF Required(kind) \subseteq params
                 THEN Did([NoRoute EXCEPT !.pc = "init", !.kind = kind, !.params = params,
                                          !.status = 200],
                          <<"initStagehand">>)
                 ELSE [NoRoute EXCEPT !.pc = "answered", !.kind = kind, !.params = params,
                                      !.status = 400])
  /\ UNCHANGED <<clients, sessions, curPage, dom, calls, requests, server, home>>

\* initStagehand resolves: the try block starts with page.goto when there is
\* a url, else with the AI call
InitOldResolve(k) ==
  /\ routes[k].pc = "init"
  /\ SetRoute(k, LET r == [routes[k] EXCEPT !.inited = TRUE]
                 IN IF "url" \in r.params
                    THEN Did([r EXCEPT !.pc = "goto"], <<"goto">>)
                    ELSE Did([r EXCEPT !.pc = "ai"], <<AiCall(r.kind)>>))
  /\ UNCHANGED <<clients, sessions, curPage, dom, calls, requests, server, home>>

\* initStagehand rejects: start() rejects before the try block
InitOldReject(k) ==
  /\ routes[k].pc = "init"
  /\ SetRoute(k, [routes[k] EXCEPT !.pc = "crashed", !.escaped = TRUE])
  /\ UNCHANGED <<clients, sessions, curPage, dom, calls, requests, server, home>>

\* page.goto resolves: the goto route is done, the others make their AI call
GotoOldResolve(k) ==
  /\ routes[k].pc = "goto"
  /\ SetRoute(k, IF routes[k].kind = "goto"
                 THEN Finally(routes[k])
                 ELSE Did([routes[k] EXCEPT !.pc = "ai"], <<AiCall(routes[k].kind)>>))
  /\ UNCHANGED <<clients, sessions, curPage, dom, calls, requests, server, home>>

\* page.goto rejects
GotoOldReject(k) ==
  /\ routes[k].pc = "goto"
  /\ SetRoute(k, CatchOld(routes[k]))
  /\ UNCHANGED <<clients, sessions, curPage, dom, calls, requests, server, home>>

\* act, extract or observe resolves: extract and observe log their result
AiResolve(k) ==
  /\ routes[k].pc = "ai"
  /\ SetRoute(k, Finally(Did(routes[k], ResultLog(routes[k].kind))))
  /\ UNCHANGED <<clients, sessions, curPage, dom, calls, requests, server, home>>

\* act, extract or observe rejects
AiReject(k) ==
  /\ routes[k].pc = "ai"
  /\ SetRoute(k, CatchOld(routes[k]))
  /\ UNCHANGED <<clients, sessions, curPage, dom, calls, requests, server, home>>

\* await stagehand.close() resolves: start() returns
CloseOldResolve(k) ==
  /\ routes[k].pc = "closing"
  /\ SetRoute(k, [routes[k] EXCEPT !.pc = "finished"])
  /\ UNCHANGED <<clients, sessions, curPage, dom, calls, requests, server, home>>

\* await stagehand.close() rejects: start() rejects with the error of close
CloseOldReject(k) ==
  /\ routes[k].pc = "closing"
  /\ SetRoute(k, [routes[k] EXCEPT !.pc = "close failed"])
  /\ UNCHANGED <<clients, sessions, curPage, dom, calls, requests, server, home>>

OldStep(k) ==
  \/ \E kind \in RouteKinds, params \in SUBSET Params : PostOld(k, kind, params)
  \/ InitOldResolve(k)
  \/ InitOldReject(k)
  \/ GotoOldResolve(k)
  \/ GotoOldReject(k)
  \/ AiResolve(k)
  \/ AiReject(k)
  \/ CloseOldResolve(k)
  \/ CloseOldReject(k)

NextOld == \E k \in OldRequests : OldStep(k)

\* requests to the older server's routes, interleaved
SpecOld == InitSessions /\ [][NextOld]_vars

\* ------------------------------------------------------- demo page (Home)
Remove(seq, i) == [j \in 1..(Len(seq) - 1) |-> IF j < i THEN seq[j] ELSE seq[j + 1]]

\* .then(setDebugUrl): the URL of the session the request was made for
SetDebugUrl(h, id) == [h EXCEPT !.debugUrl = id]

\* the body of the effect: without session or API key the debug URL is
\* cleared, else getSessionDebugUrl is called for the session
Effect(h) ==
  IF h.session = 0 \/ ~h.apiKey
  THEN [h EXCEPT !.debugUrl = 0]
  ELSE [h EXCEPT !.pending = Append(@, h.session), !.asked = @ + 1]
\* React runs the effect after a render in which one of its dependencies
\* (session, browserbaseApiKey) has changed
Rendered(old, new) ==
  IF new.session # old.session \/ new.apiKey # old.apiKey THEN Effect(new) ELSE new
\* a step of the page: the state after the handler and the effect it causes;
\* the number of debug-URL requests is bounded
Render(new) ==
  /\ Rendered(home, new).asked <= MaxDebug
  /\ home' = Rendered(home, new)
  /\ UNCHANGED <<clients, sessions, curPage, dom, calls, requests, server, routes>>

\* onStartSession up to its await (the button shows it while no session is set)
OnStartSession ==
  /\ home.session = 0 /\ home.apiKey /\ ~home.starting
  /\ home.started < MaxSessions
  /\ Render([home EXCEPT !.starting = TRUE, !.started = @ + 1])

\* startSession returns: setSession(session)
StartSessionReturned ==
  /\ home.starting
  /\ Render([home EXCEPT !.starting = FALSE, !.session = home.started])

\* startSession throws: onStartSession rejects, nothing is set
StartSessionThrew ==
  /\ home.starting
  /\ Render([home EXCEPT !.starting = FALSE])

\* onEndSession up to its await
OnEndSession ==
  /\ home.session # 0 /\ home.apiKey /\ home.ending = 0
  /\ Render([home EXCEPT !.ending = home.session])

\* endSession returns: setSession(null); setDebugUrl(null)
EndSessionReturned ==
  /\ home.ending # 0
  /\ Render([home EXCEPT !.ending = 0, !.session = 0, !.debugUrl = 0])

\* endSession throws: onEndSession rejects, nothing is set
EndSessionThrew ==
  /\ home.ending # 0
  /\ Render([home EXCEPT !.ending = 0])

\* a pending getSessionDebugUrl resolves: setDebugUrl(debuggerUrl)
DebugUrlResolve(i) ==
  /\ i \in 1..Len(home.pending)
  /\ Render(SetDebugUrl([home EXCEPT !.pending = Remove(@, i)], home.pending[i]))

\* a pending getSessionDebugUrl rejects: setSession(null)
DebugUrlReject(i) ==
  /\ i \in 1..Len(home.pending)
  /\ Render([home EXCEPT !.pending = Remove(@, i), !.session = 0])

\* the API key field is cleared or filled: setBrowserbaseApiKey
SetBrowserbaseApiKey ==
  \E filled \in BOOLEAN :
    /\ filled # home.apiKey
    /\ Render([home EXCEPT !.apiKey = filled])

NextHome ==
  \/ OnStartSession
  \/ StartSessionReturned
  \/ StartSessionThrew
  \/ OnEndSession
  \/ EndSessionReturned
  \/ EndSessionThrew
  \/ \E i \in 1..MaxDebug : DebugUrlResolve(i)
  \/ \E i \in 1..MaxDebug : DebugUrlReject(i)
  \/ SetBrowserbaseApiKey

\* the demo page: its handlers and the settlements of its requests
SpecHome == InitSessions /\ [][NextHome]_vars

\* ================================================================ properties
IsSend(e) == e.ev = "send"
IsMouse(e) == e.ev = "send" /\ e.cmd = "Input.dispatchMouseEvent"
IsNavigate(e) == e.ev = "send" /\ e.cmd = "Page.navigate"
IsNative(e) == e.ev = "native"
IsEvaluate(e) == e.ev = "request" /\ e.cmd = "evaluate"
IsCreate(e) == e.ev = "request" /\ e.cmd = "newCDPSession"
Sends(call) == SelectSeq(call.log, IsSend)
MouseEvents(call) == SelectSeq(call.log, IsMouse)
Navigations(call) == SelectSeq(call.log, IsNavigate)
NativeCalls(call) == SelectSeq(call.log, IsNative)
Evaluations(call) == SelectSeq(call.log, IsEvaluate)
Creations(call) == SelectSeq(call.log, IsCreate)
Range(seq) == {seq[i] : i \in 1..Len(seq)}
Intercepted == {"goto", "click", "locator"}
IsReject(e) == e.ev = "reject"
IsCreateReject(e) == e.ev = "reject" /\ e.cmd = "newCDPSession"
Rejections(call) == SelectSeq(call.log, IsReject)
CreationFailures(call) == SelectSeq(call.log, IsCreateReject)
Last(seq) == seq[Len(seq)]

\* ---------------------------------------------------------------- C1
\* C1 as stated: when the caller awaits its goto/click calls one after
\* another, newCDPSession is requested at most once, at most one session ever
\* exists, and every protocol command is sent on that one session.
C1_AsStated ==
  /\ requests <= 1
  /\ Len(sessions) <= 1
  /\ \A c \in Calls : \A e \in Range(Sends(calls[c])) : e.session = 1

\* C1 amended: when the caller awaits its goto/click calls one after another,
\* newCDPSession is requested only while no session has been created (a
\* request is repeated only after a failed one), at most one session ever
\* exists, it is the stored one, and every protocol command of every call is
\* sent on it.
C1_OneSessionSequential ==
  /\ Len(sessions) <= 1
  /\ cdpClient = Len(sessions)
  /\ \A c \in Calls :
       /\ calls[c].pc = "creating" => sessions = <<>>
       /\ \A e \in Range(Sends(calls[c])) : e.session = 1 /\ cdpClient = 1

\* a goto has completed on the session it created and a later click, which
\* requested nothing, is dispatching on the same session
C1_Witness ==
  /\ requests = 1
  /\ calls[1].pc = "done" /\ calls[1].op = "goto" /\ calls[1].result = "ok"
  /\ Len(Creations(calls[1])) = 1
  /\ calls[2].pc = "releasing" /\ calls[2].op = "click"
  /\ Creations(calls[2]) = <<>>
  /\ calls[2].cdp = calls[1].cdp

\* ---------------------------------------------------------------- C2
\* C2: also when a second goto/click starts before the first call's session
\* creation has completed, creation is requested only once (no two requests
\* are pending together), one session exists and both calls use it.
C2_SingleCreationConcurrent ==
  /\ Cardinality({c \in Calls : calls[c].pc = "creating"}) <= 1
  /\ Len(sessions) <= 1
  /\ \A c, d \in Calls : (calls[c].cdp # 0 /\ calls[d].cdp # 0) => calls[c].cdp = calls[d].cdp

\* ---------------------------------------------------------------- C3
\* C3: reading a member other than goto, click and locator on the facade
\* yields the native member of the wrapped page handle, sends no protocol
\* command and creates no session.
C3_PassThroughRead ==
  [][\A c \in Calls :
       (calls[c].pc = "wrapped" /\ calls'[c].pc = "got" /\ calls'[c].op \notin Intercepted)
       => /\ calls'[c].member = [kind |-> "native", name |-> calls'[c].op, page |-> calls[c].target]
          /\ calls'[c].log = <<>>
          /\ cdpClient' = cdpClient /\ sessions' = sessions /\ requests' = requests]_vars

C3_Witness ==
  \E c \in Calls :
    /\ calls[c].pc = "got" /\ calls[c].op = "extract"
    /\ calls[c].member.kind = "native" /\ calls[c].member.name = "extract"
    /\ cdpClient = 0

\* ---------------------------------------------------------------- C4
\* C4: a goto or click invoked through the facade never runs the native goto
\* or click: goto issues only Page.navigate, click only one evaluation and
\* Input.dispatchMouseEvent commands; reading locator yields the
\* LocatorOverrider factory, not the native factory.
C4_InterceptedNeverNative ==
  \A c \in Calls :
    /\ calls[c].op \in {"goto", "click"} =>
         /\ NativeCalls(calls[c]) = <<>>
         /\ calls[c].member.kind = "override"
    /\ calls[c].op = "goto" =>
         /\ \A e \in Range(Sends(calls[c])) : e.cmd = "Page.navigate"
         /\ Evaluations(calls[c]) = <<>>
         /\ calls[c].result = "ok" => Len(Sends(calls[c])) = 1
    /\ calls[c].op = "click" =>
         /\ \A e \in Range(Sends(calls[c])) : e.cmd = "Input.dispatchMouseEvent"
         /\ Len(Evaluations(calls[c])) <= 1
         /\ calls[c].result = "ok" =>
              Len(Evaluations(calls[c])) = 1 /\ Len(Sends(calls[c])) = 2
    /\ calls[c].op = "locator" =>
         calls[c].member = [kind |-> "locatorFactory", name |-> "locator", page |-> 0]

C4_Witness ==
  /\ calls[1].op = "goto" /\ calls[1].result = "ok" /\ Len(Navigations(calls[1])) = 1
  /\ calls[2].op = "click" /\ calls[2].result = "ok" /\ Len(MouseEvents(calls[2])) = 2

\* ---------------------------------------------------------------- C5
Lookups(call) == SelectSeq(call.log, LAMBDA e : e.ev = "lookup")
NoMatch(call) == \E e \in Range(Lookups(call)) : e.params.matches = <<>>
OneMatch(call) == \E e \in Range(Lookups(call)) : Len(e.params.matches) = 1

\* C5: a click whose lookup matches no element fails with the
\* element-not-found error naming its selector, has dispatched no mouse event
\* (press or release) and has evaluated the selector once only.
C5_NotFoundNoDispatch ==
  \A c \in Calls :
    NoMatch(calls[c]) =>
      /\ calls[c].pc = "done"
      /\ calls[c].result = "Element not found for selector: " \o calls[c].args.a1
      /\ MouseEvents(calls[c]) = <<>>
      /\ Len(Evaluations(calls[c])) = 1
      /\ Len(Lookups(calls[c])) = 1

C5_Witness ==
  \E c \in Calls :
    /\ calls[c].op = "click" /\ calls[c].args.a1 = "#search"
    /\ NoMatch(calls[c])
    /\ calls[c].result = "Element not found for selector: #search"

\* ---------------------------------------------------------------- C6
\* C6: a click whose lookup matches exactly one element sends a press and,
\* unless the press is pending or was rejected, a release and nothing more:
\* two mouse events, both at (left + width/2, top + height/2) of the
\* rectangle found by that call (coordinates in half pixels); for
\* {left:100, top:50, width:40, height:20} both are at (120, 60).
C6_TwoEventsAtCenter ==
  \A c \in Calls :
    OneMatch(calls[c]) =>
      LET r == Lookups(calls[c])[1].params.matches[1]
          ev == MouseEvents(calls[c])
      IN /\ Len(ev) \in {1, 2}
         /\ ev[1].params.type = "mousePressed"
         /\ Len(ev) = 2 => ev[2].params.type = "mouseReleased"
         /\ Len(ev) = 1 =>
              \/ calls[c].pc = "pressing"
              \/ calls[c].result = "rejected: Input.dispatchMouseEvent"
         /\ calls[c].result = "ok" => Len(ev) = 2
         /\ \A i \in 1..Len(ev) :
              /\ ev[i].params.x = 2 * r.left + r.width
              /\ ev[i].params.y = 2 * r.top + r.height
              /\ r = [left |-> 100, top |-> 50, width |-> 40, height |-> 20]
                   => ev[i].params.x = 2 * 120 /\ ev[i].params.y = 2 * 60

C6_Witness ==
  \E c \in Calls :
    /\ calls[c].op = "click" /\ calls[c].result = "ok"
    /\ Lookups(calls[c])[1].params.matches = <<RSearch>>
    /\ Len(MouseEvents(calls[c])) = 2
    /\ \A e \in Range(MouseEvents(calls[c])) : e.params.x = 240 /\ e.params.y = 120

\* ---------------------------------------------------------------- C7
\* C7: within a click the mousePressed command is sent before the
\* mouseReleased command, the release directly after the press has
\* completed with nothing sent in between, and both carry button left and
\* clickCount 1.
C7_PressThenRelease ==
  \A c \in Calls :
    LET log == calls[c].log
    IN \A i \in 1..Len(log) :
         IsMouse(log[i]) =>
           /\ log[i].params.button = "left"
           /\ log[i].params.clickCount = 1
           /\ log[i].params.type \in {"mousePressed", "mouseReleased"}
           /\ log[i].params.type = "mousePressed" =>
                \A j \in 1..(i - 1) : ~IsMouse(log[j])
           /\ log[i].params.type = "mouseReleased" =>
                /\ i >= 3
                /\ log[i - 1].ev = "resolve" /\ log[i - 1].cmd = "Input.dispatchMouseEvent"
                /\ IsMouse(log[i - 2]) /\ log[i - 2].params.type = "mousePressed"
                /\ \A j \in 1..Len(log) : (IsMouse(log[j]) /\ j # i) => j = i - 2

C7_Witness ==
  \E c \in Calls :
    /\ calls[c].pc = "releasing"
    /\ Len(MouseEvents(calls[c])) = 2
    /\ MouseEvents(calls[c])[2].params.type = "mouseReleased"

\* ---------------------------------------------------------------- C8
\* C8: a goto that has obtained its session sends exactly one Page.navigate,
\* whose parameters are the url and the referrer (options.referer when given,
\* omitted when there are no options or no referer) and nothing else; goto
\* evaluates nothing in the page and sends no mouse event.
C8_SingleNavigate ==
  \A c \in Calls :
    calls[c].op = "goto" =>
      LET nav == Navigations(calls[c])
          o == calls[c].args.options
      IN /\ Len(nav) <= 1
         /\ (calls[c].pc = "navigating" \/ calls[c].result \in {"ok", "rejected: Page.navigate"})
              => Len(nav) = 1
         /\ \A e \in Range(nav) :
              /\ DOMAIN e.params = {"url", "referrer"}
              /\ e.params.url = calls[c].args.a1
              /\ (o.present /\ o.referer # "undefined") => e.params.referrer = o.referer
              /\ (~o.present \/ o.referer = "undefined") => e.params.referrer = "undefined"
         /\ Evaluations(calls[c]) = <<>>
         /\ MouseEvents(calls[c]) = <<>>
         /\ Len(Sends(calls[c])) = Len(nav)

\* one goto with a referer and one with other options only have navigated
C8_Witness ==
  \E c, d \in Calls :
    /\ calls[c].op = "goto" /\ calls[c].result = "ok"
    /\ calls[c].args.options.timeout = "5000"
    /\ Navigations(calls[c])[1].params = [url |-> "https://www.google.com", referrer |-> "undefined"]
    /\ calls[d].op = "goto" /\ calls[d].result = "ok"
    /\ calls[d].args.options.referer = "https://r.example"
    /\ Navigations(calls[d])[1].params.referrer = "https://r.example"

\* ---------------------------------------------------------------- C9
\* C9: calling a member of a wrapped locator with some arguments does what
\* calling that member of the native locator with the same arguments does:
\* for click as for every other member.
C9_LocatorPassThrough ==
  \A c \in Calls :
    (calls[c].op = "locator" /\ calls[c].pc = "done") =>
      NativeCalls(calls[c]) =
        << [ev |-> "native", cmd |-> "page.locator", session |-> 0,
            params |-> [page |-> calls[c].locPage, args |-> calls[c].args.a1]],
           [ev |-> "native", cmd |-> "locator." \o calls[c].lop, session |-> 0,
            params |-> [page |-> calls[c].locPage, selector |-> calls[c].args.a1,
                        args |-> calls[c].largs]] >>

\* ---------------------------------------------------------------- C10
\* C10: a click on a wrapped locator calls the native locator's click exactly
\* once and nothing else: no step of a locator chain requests or stores a
\* session, evaluates geometry or sends a protocol command.
C10_LocatorClickFrame ==
  [][\A c \in Calls :
       (calls'[c].op = "locator" /\ calls'[c] # calls[c]) =>
         /\ cdpClient' = cdpClient /\ sessions' = sessions /\ requests' = requests
         /\ calls'[c].cdp = 0
         /\ Sends(calls'[c]) = <<>> /\ Evaluations(calls'[c]) = <<>>
         /\ Creations(calls'[c]) = <<>>
         /\ (calls'[c].pc = "done" /\ calls'[c].lop = "click") =>
              /\ Len(calls'[c].log) = 2
              /\ calls'[c].log[1].cmd = "page.locator"
              /\ calls'[c].log[2].cmd = "locator.click"]_vars

\* only locator(...).click() has run on the facade: it holds no session
C10_Witness ==
  \E c \in Calls :
    /\ calls[c].op = "locator" /\ calls[c].lop = "click" /\ calls[c].pc = "done"
    /\ requests = 0 /\ cdpClient = 0 /\ sessions = <<>>

\* ---------------------------------------------------------------- C11
\* C11: when session creation fails during a goto or click, the call rejects
\* with that failure, it has requested creation exactly once and has issued
\* no Page.navigate, evaluation or mouse event, and nothing is stored; a
\* goto/click invoked while nothing is stored requests creation (again).
C11_CreationFailurePropagates ==
  [][\A c \in Calls :
       /\ Len(CreationFailures(calls'[c])) > Len(CreationFailures(calls[c])) =>
            /\ calls'[c].pc = "done"
            /\ calls'[c].result = RejectionOf("newCDPSession")
            /\ calls'[c].op \in {"goto", "click"}
            /\ Len(Creations(calls'[c])) = 1
            /\ calls'[c].log = <<Entry("request", "newCDPSession", 0, NoParams),
                                 Entry("reject", "newCDPSession", 0, NoParams)>>
            /\ Sends(calls'[c]) = <<>> /\ Evaluations(calls'[c]) = <<>>
            /\ clients' = clients /\ sessions' = sessions
       /\ (calls[c].pc = "got" /\ calls'[c].pc # "got"
              /\ calls[c].op \in {"goto", "click"} /\ clients[calls[c].facade] = 0) =>
            /\ calls'[c].pc = "creating"
            /\ calls'[c].log = <<Entry("request", "newCDPSession", 0, NoParams)>>]_vars

\* the first call was rejected by the failed creation, nothing is stored and
\* the call after it has requested creation again
C11_Witness ==
  /\ calls[1].pc = "done" /\ calls[1].result = RejectionOf("newCDPSession")
  /\ Len(Creations(calls[1])) = 1
  /\ cdpClient = 0 /\ sessions = <<>>
  /\ calls[2].pc = "creating" /\ calls[2].op \in {"goto", "click"}
  /\ requests = 2

\* ---------------------------------------------------------------- C12
\* C12: when Page.navigate, the evaluation, the press or the release rejects,
\* the goto/click has settled with that command's error, the rejection is the
\* last thing the call did, the rejected command was attempted once, right
\* before, and a rejected press is not followed by a release.
C12_NoRecoveryNoRetry ==
  \A c \in Calls :
    LET log == calls[c].log
    IN \A i \in 1..Len(log) :
         (IsReject(log[i]) /\ log[i].cmd # "newCDPSession") =>
           /\ i = Len(log)
           /\ calls[c].pc = "done"
           /\ calls[c].result = RejectionOf(log[i].cmd)
           /\ i > 1 /\ log[i-1].ev \in {"send", "request"} /\ log[i-1].cmd = log[i].cmd
           /\ \A j \in 1..Len(log) : log[j] = log[i-1] => j = i - 1
           /\ Len(Rejections(calls[c])) = 1
           /\ log[i].cmd = "Page.navigate" => Len(Sends(calls[c])) = 1
           /\ log[i].cmd = "evaluate" =>
                Len(Evaluations(calls[c])) = 1 /\ Sends(calls[c]) = <<>>
           /\ log[i].cmd = "Input.dispatchMouseEvent" =>
                /\ Len(Evaluations(calls[c])) = 1
                /\ Len(MouseEvents(calls[c])) \in {1, 2}
                /\ MouseEvents(calls[c])[1].params.type = "mousePressed"
                /\ log[i-1].params.type = "mousePressed" =>
                     Len(MouseEvents(calls[c])) = 1

\* a click was rejected by its press: one mouse event was sent, no release
C12_Witness ==
  \E c \in Calls :
    /\ calls[c].pc = "done" /\ calls[c].op = "click"
    /\ calls[c].result = RejectionOf("Input.dispatchMouseEvent")
    /\ Len(MouseEvents(calls[c])) = 1
    /\ Last(calls[c].log).ev = "reject"

\* ---------------------------------------------------------------- C13
\* C13: reading the page property of the facade, or reading any member of
\* the page (goto, click and locator included) without calling it, changes
\* no field, creates and requests no session and issues no command,
\* evaluation or native call.
C13_ReadsHaveNoEffect ==
  [][\A c \in Calls :
       ((calls[c].pc = "idle" /\ calls'[c].pc = "wrapped")
          \/ (calls[c].pc = "wrapped" /\ calls'[c].pc = "got")) =>
         /\ clients' = clients /\ sessions' = sessions /\ requests' = requests
         /\ curPage' = curPage /\ dom' = dom
         /\ calls'[c].log = <<>> /\ calls'[c].cdp = 0 /\ calls'[c].result = ""
         /\ \A d \in Calls \ {c} : calls'[d] = calls[d]]_vars

\* click has been read from the page, and not called, on a facade nothing
\* else has used
C13_Witness ==
  \E c \in Calls :
    /\ calls[c].pc = "got" /\ calls[c].op = "click"
    /\ calls[c].member = OverrideMember("click")
    /\ calls[c].log = <<>>
    /\ cdpClient = 0 /\ sessions = <<>> /\ requests = 0

\* ---------------------------------------------------------------- C14
\* C14: the session is created lazily: a facade holds a session, and a
\* session exists, only if creation has been requested, and creation is
\* requested, a session created or stored only by a step of a goto or click
\* called through the facade; construction and the pass-through members
\* (act, extract, observe) request nothing.
C14_LazyCreation ==
  /\ [](requests = 0 => (sessions = <<>> /\ \A f \in Facades : clients[f] = 0))
  /\ [][(clients' # clients \/ sessions' # sessions \/ requests' # requests) =>
          \E c \in Calls :
            /\ calls'[c] # calls[c]
            /\ calls'[c].op \in {"goto", "click"}
            /\ calls'[c].member.kind = "override"
            /\ calls[c].pc \in {"got", "creating"}]_vars

\* act has been called through the facade and has completed; no session has
\* been requested or stored
C14_Witness ==
  \E c \in Calls :
    /\ calls[c].pc = "done" /\ calls[c].op = "act" /\ calls[c].result = "ok"
    /\ Len(NativeCalls(calls[c])) = 1
    /\ requests = 0 /\ cdpClient = 0 /\ sessions = <<>>

C16_StoredNeverReplaced ==
  [][\A f \in Facades :
       clients[f] # 0 =>
         /\ clients'[f] = clients[f]
         /\ \A c \in Calls :
              (calls[c].facade = f /\ calls[c].pc = "got") => calls'[c].pc # "creating"]_vars

\* ---------------------------------------------------------------- C17
\* C17: geometry is never cached: a click evaluates its selector exactly once
\* before it dispatches, against the document as it is when the evaluation
\* runs, and its press and release are at the center of the first rectangle
\* that evaluation found, whatever earlier clicks on the selector found.
C17_GeometryNotCached ==
  /\ [](\A c \in Calls :
          /\ Len(Evaluations(calls[c])) <= 1
          /\ Len(Lookups(calls[c])) <= Len(Evaluations(calls[c]))
          /\ (calls[c].op = "click" /\ calls[c].result = "ok") =>
               Len(Lookups(calls[c])) = 1
          /\ MouseEvents(calls[c]) # <<>> =>
               /\ Len(Lookups(calls[c])) = 1
               /\ Lookups(calls[c])[1].params.matches # <<>>
               /\ LET r == Lookups(calls[c])[1].params.matches[1]
                  IN \A e \in Range(MouseEvents(calls[c])) :
                       /\ e.params.x = 2 * r.left + r.width
                       /\ e.params.y = 2 * r.top + r.height)
  /\ [][\A c \in Calls :
          (calls[c].pc = "evaluating" /\ calls'[c].pc = "pressing"
             /\ calls[c].reqPage = curPage) =>
            /\ dom[calls[c].args.a1] # <<>>
            /\ Lookups(calls'[c])[1].params.matches = dom[calls[c].args.a1]
            /\ LET r == dom[calls[c].args.a1][1]
               IN calls'[c].xy = [x |-> 2 * r.left + r.width, y |-> 2 * r.top + r.height]]_vars

\* two clicks on "#search": the first found the element at (100,50) 40x20 and
\* dispatched at its center, the second found it moved to (10,20) 41x7 and
\* dispatches at the new center
C17_Witness ==
  /\ calls[1].op = "click" /\ calls[1].args.a1 = "#search" /\ calls[1].result = "ok"
  /\ Lookups(calls[1])[1].params.matches = <<RSearch>>
  /\ \A e \in Range(MouseEvents(calls[1])) : e.params.x = 240 /\ e.params.y = 120
  /\ calls[2].op = "click" /\ calls[2].args.a1 = "#search" /\ calls[2].pc = "releasing"
  /\ Lookups(calls[2])[1].params.matches = <<RMoved>>
  /\ Len(MouseEvents(calls[2])) = 2
  /\ \A e \in Range(MouseEvents(calls[2])) : e.params.x = 61 /\ e.params.y = 47

\* ---------------------------------------------------------------- C18
\* C18: click obtains the session before it evaluates the selector: when the
\* evaluation is requested the call holds a session, either the stored one
\* or the one it requested and received first; so a click that matches
\* nothing leaves a session stored and has dispatched no mouse event.
C18_SessionBeforeEvaluate ==
  \A c \in Calls :
    LET log == calls[c].log
    IN /\ \A i \in 1..Len(log) :
            IsEvaluate(log[i]) =>
              /\ calls[c].cdp # 0
              /\ clients[calls[c].facade] # 0
              /\ \/ i = 1 /\ Creations(calls[c]) = <<>>
                 \/ /\ i = 3
                    /\ log[1] = Entry("request", "newCDPSession", 0, NoParams)
                    /\ log[2] = Entry("resolve", "newCDPSession", calls[c].cdp, NoParams)
       /\ NoMatch(calls[c]) =>
            /\ clients[calls[c].facade] # 0 /\ sessions # <<>>
            /\ MouseEvents(calls[c]) = <<>>

\* the only call on the facade, a click that matched nothing: creation was
\* requested and answered before the lookup, the session is stored and no
\* mouse event was sent
C18_Witness ==
  \E c \in Calls :
    /\ calls[c].pc = "done" /\ calls[c].op = "click"
    /\ calls[c].result = NotFoundError(calls[c].args.a1)
    /\ Len(calls[c].log) = 4
    /\ IsCreate(calls[c].log[1]) /\ calls[c].log[2].ev = "resolve"
    /\ IsEvaluate(calls[c].log[3])
    /\ calls[c].log[4].ev = "lookup" /\ calls[c].log[4].params.matches = <<>>
    /\ requests = 1 /\ cdpClient = 1 /\ Len(sessions) = 1
    /\ MouseEvents(calls[c]) = <<>>

\* ---------------------------------------------------------------- C19
\* C19: for every click, the page on which the selector is being evaluated
\* is the page the session that will dispatch the press and release is
\* bound to.
C19_SessionAndGeometryAgree ==
  \A c \in Calls :
    calls[c].pc = "evaluating" =>
      /\ calls[c].cdp \in 1..Len(sessions)
      /\ sessions[calls[c].cdp] = calls[c].reqPage

\* ---------------------------------------------------------------- C20
\* C20: the execute endpoint serves every request through a facade of the
\* request's own: method goto or click runs the protocol override
\* (Page.navigate, or one evaluation and then press and release) and never the
\* native goto or click; act, extract and observe run the native member of
\* the wrapped handle and nothing else; no session is stored by, or used for
\* the commands of, two requests.
C20_ExecuteThroughOwnFacade ==
  \A r \in Requests :
    LET call == calls[r]
        method == call.req.method
    IN /\ call.req.pc \in {"connected", "closed"} => call.facade = r
       /\ \A e \in Range(NativeCalls(call)) : e.cmd \notin {"page.goto", "page.click"}
       /\ method \in {"goto", "click"} =>
            /\ NativeCalls(call) = <<>>
            /\ call.pc \notin {"idle", "wrapped"} => call.member = OverrideMember(method)
       /\ (method = "goto" /\ call.result = "ok") =>
            /\ Len(Navigations(call)) = 1 /\ Len(Sends(call)) = 1
       /\ (method = "click" /\ call.result = "ok") =>
            /\ Len(Evaluations(call)) = 1 /\ Len(MouseEvents(call)) = 2
            /\ Len(Sends(call)) = 2
       /\ (method \in {"act", "extract", "observe"} /\ call.pc = "done") =>
            /\ call.result = "ok"
            /\ call.log = <<Entry("native", "page." \o method, 0,
                                  [page |-> call.target, args |-> call.args.a1])>>
            /\ clients[r] = 0
       /\ \A e \in Range(Sends(call)) : e.session = clients[r]
       /\ \A q \in Requests \ {r} :
            /\ clients[r] # 0 => clients[q] # clients[r]
            /\ \A e \in Range(Sends(call)), g \in Range(Sends(calls[q])) :
                 e.session # g.session

\* two requests have been served to the end, a goto and a click: each ran the
\* override on the session of its own facade
C20_Witness ==
  /\ calls[1].req.pc = "closed" /\ calls[1].req.method = "goto"
  /\ calls[1].result = "ok" /\ Len(Navigations(calls[1])) = 1
  /\ calls[2].req.pc = "closed" /\ calls[2].req.method = "click"
  /\ calls[2].result = "ok" /\ Len(MouseEvents(calls[2])) = 2
  /\ clients[1] # 0 /\ clients[2] # 0 /\ clients[1] # clients[2]
  /\ calls[1].log[Len(calls[1].log)].session = clients[1]
  /\ calls[2].log[Len(calls[2].log)].session = clients[2]

\* ---------------------------------------------------------------- C21
StatusesOf(req) == [i \in 1..Len(req.events) |-> req.events[i].status]
ErrorEvents(req) == SelectSeq(req.events, LAMBDA e : e.type = "system" /\ e.status = "error")

\* C21: when the method a request invoked has rejected, the handler catches
\* the error: it enqueues one error event with the request's action id, then
\* the finished event, and closes the stream; the start callback does not
\* throw.
C21_MethodErrorReported ==
  /\ [](\A r \in Requests :
          LET call == calls[r]
          IN (call.pc = "done" /\ call.result # "ok") =>
               /\ call.req.pc \in {"connected", "closed"}
               /\ call.req.pc = "closed" =>
                    /\ StatusesOf(call.req) = <<"starting", "connected", "error", "finished">>
                    /\ ErrorEvents(call.req) = <<SystemEvent("error", call.req.action)>>
                    /\ call.req.action \in db.actions)
  /\ [][\A r \in Requests :
          (calls[r].pc = "done" /\ calls[r].result # "ok"
             /\ calls[r].req.pc = "connected" /\ calls'[r] # calls[r]) =>
            /\ calls'[r].req.pc = "closed"
            /\ calls'[r].req.events =
                 calls[r].req.events \o <<SystemEvent("error", calls[r].req.action),
                                          SystemEvent("finished", calls[r].req.action)>>]_vars

\* a click request whose selector matched nothing: its stream got the error
\* event, then the finished event, and was closed
C21_Witness ==
  \E r \in Requests :
    /\ calls[r].req.method = "click" /\ calls[r].req.pc = "closed"
    /\ calls[r].result = NotFoundError(calls[r].args.a1)
    /\ StatusesOf(calls[r].req) = <<"starting", "connected", "error", "finished">>

\* ---------------------------------------------------------------- C22
\* what a run of example issues, in order
ExampleTrace ==
  << <<"request", "newCDPSession">>, <<"resolve", "newCDPSession">>,
     <<"send", "Page.navigate">>, <<"resolve", "Page.navigate">>,
     <<"native", "page.locator">>, <<"native", "locator.click">>,
     <<"native", "page.locator">>, <<"native", "locator.fill">>,
     <<"request", "evaluate">>, <<"lookup", "evaluate">>,
     <<"send", "Input.dispatchMouseEvent">>, <<"resolve", "Input.dispatchMouseEvent">>,
     <<"send", "Input.dispatchMouseEvent">>, <<"resolve", "Input.dispatchMouseEvent">> >>

\* C22: a run of example on the fresh facade of its request issues, one
\* completed before the next: one session creation, Page.navigate to Google,
\* the native locator click, the native locator fill, one evaluation of the
\* search button, mousePressed, mouseReleased; a run stops at its first
\* failure; the click uses the session that goto created.
C22_ExampleInOrder ==
  \A r \in Requests :
    LET call == calls[r]
        log == call.log
    IN call.req.method = "example" =>
         /\ Len(log) <= Len(ExampleTrace)
         /\ \A i \in 1..Len(log) :
              /\ log[i].ev # "reject" => <<log[i].ev, log[i].cmd>> = ExampleTrace[i]
              /\ log[i].ev = "reject" =>
                   i = Len(log) /\ log[i].cmd = ExampleTrace[i][2] /\ call.result # "ok"
              /\ log[i].ev \in {"send", "resolve"} => log[i].session = log[2].session
         /\ Len(Creations(call)) <= 1
         /\ Len(log) >= 3 => log[3].params = NavigateParams(ExampleUrl, NoOptions)
         /\ Len(log) >= 6 => log[6].params.args = Undefined
         /\ Len(log) >= 8 => log[8].params.args = ExampleFill
         /\ Len(log) >= 9 => log[9].params.selector = ExampleClick
         /\ Len(log) >= 11 => log[11].params.type = "mousePressed"
         /\ Len(log) >= 13 => log[13].params.type = "mouseReleased"
         /\ (call.req.pc = "closed" /\ call.result = "ok") =>
              /\ Len(log) = Len(ExampleTrace)
              /\ clients[r] = log[2].session /\ clients[r] # 0

\* a run of example has completed and its stream is closed
C22_Witness ==
  \E r \in Requests :
    /\ calls[r].req.method = "example" /\ calls[r].req.pc = "closed"
    /\ calls[r].result = "ok" /\ calls[r].req.step = 4
    /\ Len(calls[r].log) = 14
    /\ Len(MouseEvents(calls[r])) = 2 /\ Len(Navigations(calls[r])) = 1
    /\ MouseEvents(calls[r])[2].session = Navigations(calls[r])[1].session

\* ---------------------------------------------------------------- C23
SeveralMatch(call) == \E e \in Range(Lookups(call)) : Len(e.params.matches) > 1
\* a point, in half pixels, is a corner of a rectangle / lies in a rectangle
IsCorner(x, y, r) ==
  /\ x \in {2 * r.left, 2 * (r.left + r.width)}
  /\ y \in {2 * r.top, 2 * (r.top + r.height)}
Within(x, y, r) ==
  /\ 2 * r.left <= x /\ x <= 2 * (r.left + r.width)
  /\ 2 * r.top <= y /\ y <= 2 * (r.top + r.height)

\* C23 as stated: when several elements match, click dispatches one press
\* and one release, both at the center of the first match, never at a corner
\* of it and never at a point of another matching element.
C23_AsStated ==
  \A c \in Calls :
    SeveralMatch(calls[c]) =>
      LET m == Lookups(calls[c])[1].params.matches
          ev == MouseEvents(calls[c])
      IN /\ Len(ev) <= 2
         /\ calls[c].result = "ok" => Len(ev) = 2
         /\ \A i \in 1..Len(ev) :
              /\ ev[i].params.type = IF i = 1 THEN "mousePressed" ELSE "mouseReleased"
              /\ ev[i].params.x = 2 * m[1].left + m[1].width
              /\ ev[i].params.y = 2 * m[1].top + m[1].height
              /\ ~IsCorner(ev[i].params.x, ev[i].params.y, m[1])
              /\ \A j \in 2..Len(m) : ~Within(ev[i].params.x, ev[i].params.y, m[j])

\* C23 amended: when several elements match, click dispatches one press and
\* one release, both at the center of the first match in document order,
\* whatever the other matches are; that point is no corner of the first match
\* unless its box is empty, and it is the center of a later match only when
\* the two centers coincide.
C23_CenterOfFirstMatch ==
  \A c \in Calls :
    SeveralMatch(calls[c]) =>
      LET m == Lookups(calls[c])[1].params.matches
          ev == MouseEvents(calls[c])
      IN /\ Len(ev) <= 2
         /\ calls[c].result = "ok" => Len(ev) = 2
         /\ \A i \in 1..Len(ev) :
              /\ ev[i].params.type = IF i = 1 THEN "mousePressed" ELSE "mouseReleased"
              /\ ev[i].params.x = 2 * m[1].left + m[1].width
              /\ ev[i].params.y = 2 * m[1].top + m[1].height
              /\ (m[1].width > 0 /\ m[1].height > 0) =>
                   ~IsCorner(ev[i].params.x, ev[i].params.y, m[1])
              /\ \A j \in 2..Len(m) :
                   (ev[i].params.x = 2 * m[j].left + m[j].width
                      /\ ev[i].params.y = 2 * m[j].top + m[j].height) =>
                     /\ 2 * m[1].left + m[1].width = 2 * m[j].left + m[j].width
                     /\ 2 * m[1].top + m[1].height = 2 * m[j].top + m[j].height

\* a click on ".item" found the outer and the inner element and completed:
\* both events are at the center of the outer one, which is inside the inner
C23_Witness ==
  \E c \in Calls :
    /\ calls[c].op = "click" /\ calls[c].result = "ok"
    /\ Lookups(calls[c])[1].params.matches = <<ROuter, RInner>>
    /\ Len(MouseEvents(calls[c])) = 2
    /\ \A e \in Range(MouseEvents(calls[c])) :
         e.params.x = 100 /\ e.params.y = 100 /\ Within(e.params.x, e.params.y, RInner)

\* ---------------------------------------------------------------- C24
\* the kinds of the events of a stream, in order
KindsOf(req) ==
  [i \in 1..Len(req.events) |->
     IF req.events[i].type = "log" THEN "log" ELSE req.events[i].status]
CountOf(kinds, k) == Len(SelectSeq(kinds, LAMBDA x : x = k))
CarryActionId(req) ==
  /\ req.events # <<>> => req.action \in db.actions
  /\ \A i \in 1..Len(req.events) : req.events[i].actionId = req.action

\* C24 as stated: the events of a stream are: starting, then connected, then
\* log events and at most one error, then finished as the last one; nothing
\* but starting precedes connected; every event carries the id of the
\* request's actions row.
C24_AsStated ==
  \A r \in Requests :
    LET req == calls[r].req
        k == KindsOf(req)
    IN /\ Len(k) >= 1 => k[1] = "starting"
       /\ Len(k) >= 2 => k[2] = "connected"
       /\ \A i \in 3..Len(k) : k[i] \in {"log", "error", "finished"}
       /\ CountOf(k, "error") <= 1 /\ CountOf(k, "finished") <= 1
       /\ \A i \in 1..Len(k) : k[i] = "finished" => i = Len(k)
       /\ req.pc = "closed" => k[Len(k)] = "finished"
       /\ CarryActionId(req)

\* C24 amended: the events of a stream are: starting first, then log events
\* and, once stagehand.init has completed, one connected event among them,
\* then at most one error directly followed by finished, or finished alone,
\* as the last event; error and finished never precede connected; a closed
\* stream ends with finished and gets no further event; every event carries
\* the id of the request's actions row.
C24_StreamOrder ==
  /\ [](\A r \in Requests :
          LET req == calls[r].req
              k == KindsOf(req)
          IN /\ Len(k) >= 1 => k[1] = "starting"
             /\ \A i \in 2..Len(k) : k[i] \in {"log", "connected", "error", "finished"}
             /\ CountOf(k, "connected") <= 1
             /\ CountOf(k, "error") <= 1 /\ CountOf(k, "finished") <= 1
             /\ CountOf(k, "connected") = 1 <=> req.pc \in {"connected", "closed"}
             /\ \A i \in 1..Len(k) :
                  /\ k[i] = "finished" => i = Len(k)
                  /\ k[i] = "error" => i = Len(k) - 1
                  /\ k[i] \in {"error", "finished"} => \E j \in 1..(i - 1) : k[j] = "connected"
             /\ req.pc = "closed" <=> (Len(k) > 0 /\ k[Len(k)] = "finished")
             /\ CarryActionId(req))
  /\ [][\A r \in Requests :
          calls[r].req.pc = "closed" => calls'[r].req.events = calls[r].req.events]_vars

\* a stream that was closed after: starting, a log line of init, connected,
\* a log line of the method, finished
C24_Witness ==
  \E r \in Requests :
    /\ calls[r].req.pc = "closed"
    /\ KindsOf(calls[r].req) = <<"starting", "log", "connected", "log", "finished">>
    /\ calls[r].req.action = ActionId(r)

\* ---------------------------------------------------------------- C25
\* C25: every stream that has emitted its starting event and whose handler
\* has stopped running has emitted a finished event and was closed by the
\* handler, whatever the outcome of stagehand.init and of the method.
C25_FinishedAndClosed ==
  \A r \in Requests :
    LET req == calls[r].req
    IN (req.events # <<>> /\ req.pc \notin {"opened", "connected"})
         => /\ req.pc = "closed"
            /\ Last(KindsOf(req)) = "finished"

\* ---------------------------------------------------------------- C26
\* C26: the logger callback never runs (and so never enqueues) on a stream
\* after the handler has closed it.
C26_NoEnqueueAfterClose ==
  [][\A r \in Requests :
       calls[r].req.pc = "closed" => calls'[r].req.late = calls[r].req.late]_vars

\* ---------------------------------------------------------------- C27
\* the handler of the request has gone past the insert of its actions row
Streamed(req) == req.pc \in {"opened", "connected", "closed", "crashed"}
Refused(req) == req.pc = "answered" /\ req.status \in {400, 404}

C28_OpenedWhileRowExists ==
  /\ [](\A id \in db.sessions :
          /\ \E o \in Ops : ops[o].kind = "start" /\ ops[o].id = id /\ ops[o].pc = "done"
          /\ ~\E o \in Ops : ops[o].kind = "end" /\ ops[o].id = id /\ ops[o].pc = "done")
  /\ [][\A r \in Requests :
          /\ (calls[r].req.pc = "inserting" /\ calls'[r].req.pc = "opened")
               => calls[r].req.session \in db.sessions
          /\ (/\ calls[r].req.pc = "lookup" /\ calls'[r].req.pc = "inserting"
              /\ \E o \in Ops : /\ ops[o].kind = "end" /\ ops[o].pc = "done"
                                 /\ ops[o].id = calls[r].req.session)
               => FALSE]_vars

\* ---------------------------------------------------------------- C29
StartOps == {o \in Ops : ops[o].kind = "start"}

\* C29: startSession throws its missing-fields error, with no remote call and
\* no database write, exactly when one of the three required fields is
\* missing; otherwise the remote session is created first and then exactly
\* one sessions row, with the remote session's id, is inserted; no row
\* exists for a remote session that was not created; a rejected insert
\* leaves the created remote session without row and without release
\* request.
C29_CreateThenInsert ==
  /\ [](/\ \A o \in StartOps :
            /\ (\E f \in SessionFields : f \notin ops[o].fields)
                 <=> (ops[o].pc = "failed" /\ ops[o].result = "Missing required fields")
            /\ ops[o].result = "Missing required fields" => ops[o].id = 0
            /\ ops[o].pc \in {"inserting", "done"} => bb.state[ops[o].id] # "none"
            /\ ops[o].result = "insert failed" =>
                 /\ bb.state[ops[o].id] # "none"
                 /\ ops[o].id \notin db.sessions
         /\ \A id \in db.sessions : bb.state[id] # "none")
  /\ [][/\ \A o \in Ops :
             /\ (ops[o].pc = "idle" /\ ops'[o].result = "Missing required fields")
                  => (bb' = bb /\ db' = db)
             /\ (ops[o].pc = "inserting" /\ ops'[o].pc = "failed")
                  => (bb' = bb /\ db' = db)
        /\ \A id \in db'.sessions \ db.sessions :
             /\ db'.sessions = db.sessions \cup {id}
             /\ \E o \in StartOps :
                  /\ ops[o].pc = "inserting" /\ ops'[o].pc = "done"
                  /\ ops[o].id = id /\ bb.state[id] = "created"]_vars

\* one startSession refused for a missing model API key, one whose insert
\* was rejected after its remote session was created, and one completed
C29_Witness ==
  \E o, p, q \in StartOps :
    /\ ops[o].result = "Missing required fields"
    /\ ops[o].fields = {"browserbaseApiKey", "browserbaseProjectId"}
    /\ ops[p].result = "insert failed"
    /\ bb.state[ops[p].id] = "created" /\ ops[p].id \notin db.sessions
    /\ bb.releases = <<>>
    /\ ops[q].pc = "done" /\ db.sessions = {ops[q].id}

\* ---------------------------------------------------------------- C30
EndOps == {o \in Ops : ops[o].kind = "end"}

\* C30: endSession sends the release request before it deletes the row, and
\* deletes the row only when the release request succeeded; when the release
\* request rejects, endSession throws and the row is left as it is.
C30_ReleaseThenDelete ==
  /\ [](\A o \in EndOps :
          /\ \E i \in 1..Len(bb.releases) : bb.releases[i] = ops[o].id
          /\ ops[o].pc \in {"deleting", "done"} => bb.state[ops[o].id] = "released"
          /\ ops[o].result = "release failed" => ops[o].pc = "failed")
  /\ [][/\ \A o \in Ops :
             (ops[o].pc = "releasing" /\ ops'[o].pc # "releasing")
               => /\ db' = db
                  /\ \/ ops'[o].pc = "deleting" /\ bb'.state[ops[o].id] = "released"
                     \/ ops'[o].pc = "failed" /\ ops'[o].result = "release failed"
                        /\ bb' = bb
        /\ \A id \in db.sessions \ db'.sessions :
             /\ db'.sessions = db.sessions \ {id}
             /\ bb.state[id] = "released"
             /\ \E o \in EndOps :
                  /\ ops[o].pc = "deleting" /\ ops'[o].pc = "done" /\ ops[o].id = id]_vars

\* an endSession whose release request was sent and rejected: it has thrown,
\* the remote session is still up and the row of its session is still there
C30_Witness ==
  \E o \in EndOps :
    /\ ops[o].pc = "failed" /\ ops[o].result = "release failed"
    /\ ops[o].id \in db.sessions
    /\ bb.state[ops[o].id] = "created"
    /\ bb.releases = <<ops[o].id>>

\* ---------------------------------------------------------------- C31
RouteOps == {o \in Ops : ops[o].via = "route"}

\* C31: the start-session endpoint answers 400, without reading the body and
\* without calling startSession, exactly when one of its three headers is
\* missing; a failure of the body read or of startSession is answered 500
\* and is not thrown by the handler; a sessionId is answered only when
\* startSession completed, and it is the id of the remote session created.
C31_StartSessionAnswers ==
  /\ [](\A o \in RouteOps :
          /\ ops[o].status \in {0, 200, 400, 500}
          /\ ops[o].pc # "escaped"
          /\ (\E h \in StartHeaders : h \notin ops[o].hdrs) <=> ops[o].status = 400
          /\ ops[o].status = 400 =>
               /\ ~ops[o].read /\ ops[o].kind = "" /\ ops[o].id = 0
               /\ ops[o].error = "Missing required API keys in headers"
          /\ ops[o].status = 500 =>
               /\ ops[o].error = "Failed to start session"
               /\ ops[o].sessionId = 0
               /\ ops[o].pc \in {"answered", "failed"}
          /\ (ops[o].read /\ ops[o].body # "object") =>
               (ops[o].kind = "" /\ (ops[o].pc = "answered" => ops[o].status = 500))
          /\ ops[o].sessionId # 0 <=> ops[o].status = 200
          /\ ops[o].status = 200 =>
               /\ ops[o].pc = "done" /\ ops[o].sessionId = ops[o].id
               /\ bb.state[ops[o].sessionId] = "created"
               /\ ops[o].sessionId \in db.sessions)
  /\ [][\A o \in Ops :
          /\ (ops[o].via = "route" /\ ops[o].pc = "failed" /\ ops[o].status = 0
                 /\ ops'[o] # ops[o])
               => ops'[o] = Failed500(ops[o])
          /\ (ops[o].pc = "idle" /\ ops'[o].status = 400) => (db' = db /\ bb' = bb)
          /\ (ops[o].status # 0) => ops'[o] = ops[o]]_vars

\* three requests: one refused for its missing model-api-key header, one
\* answered 500 after its remote session was created and the insert of its
\* row failed, one answered with the id of its session
C31_Witness ==
  \E o, p, q \in RouteOps :
    /\ ops[o].status = 400
    /\ ops[o].hdrs = {"browserbase-api-key", "browserbase-project-id"}
    /\ ops[p].status = 500 /\ ops[p].result = "insert failed"
    /\ bb.state[ops[p].id] = "created"
    /\ ops[q].status = 200 /\ ops[q].sessionId = ops[q].id
    /\ db.sessions = {ops[q].id}

\* ---------------------------------------------------------------- C32
Count(seq, what) == Len(SelectSeq(seq, LAMBDA x : x = what))
Index(seq, what) == CHOOSE i \in 1..Len(seq) : seq[i] = what
Settled(route) == route.inited /\ route.pc \notin {"goto", "ai"}

C33_DebugUrlOnlyWithSession ==
  /\ [](home.session = 0 => home.debugUrl = 0)
  /\ [][(Len(home'.pending) < Len(home.pending) /\ home'.debugUrl = 0)
         => home'.session = 0]_vars

====
